---- MODULE Spec2Model ----
(***************************************************************************)
(* dectyl: the host-side worker controller (DeployWorker) and the          *)
(* worker-side runtime shim (DeployWorkerHost), joined by two FIFO message *)
(* channels.  Each side is a single-threaded event loop: a handler runs to *)
(* its first await in one step; the code after an await is a separate     *)
(* step (a job of the microtask queue).                                    *)
(***************************************************************************)
EXTENDS Integers, Sequences, FiniteSets, TLC

\* ---------------------------------------------------------------- bounds
MaxFetch == 2     \* fetch() calls the controller accepts
MaxOutstanding == 1  \* start() / stop() / close() calls suspended at the same time
MaxRespond == 2   \* respondWith() calls on one request event
MaxChunks == 1    \* chunks a body stream yields
MaxScriptFetch == 1  \* fetch() calls the worker script makes
MaxStreamFetch == 1  \* fetch() calls with a stream body; requests answered with one in NextResponse
MaxErrors == 1    \* error events the worker raises
MaxHeaders == 2   \* headers a caller writes in one HeadersInit
MaxLogs == 2      \* lines the script logs
MaxSettle == 3    \* resolve() / reject() calls on one Deferred
MaxForeign == 2   \* messages of a type their receiver has no case for
MaxNext == 2      \* nextRequest() calls and iteration steps on one HttpConn
MaxListen == 2    \* Deno.listen() calls of the script
MaxEnvCalls == 2  \* calls the script makes on Deno.env
MaxFileRequests == 2  \* requests fileFetchHandler is called with
MaxUserFetch == 2  \* fetch() calls of the script, with any input
MaxConns == 2     \* connections the listener of listen() accepts
MaxResponseChunks == 2  \* chunks the body of a response yields where their order is followed

Ids == 1..MaxFetch
Conns == 1..MaxConns
Urls == {"/a", "/b"}
None == "-"
NoOutcome == [kind |-> None, val |-> None]
NoFetch == [st |-> None, res |-> None, posted |-> FALSE]

\* The four loops that post a streamed body, by class and method.
Emitters == {"DeployWorker.streamBody", "DeployWorkerHost.postResponse",
             "DeployWorkerHost.streamBody", "RequestEvent.finalize"}
Terminals == {"bodyClose", "bodyError"}

\* ------------------------------------------------------ request headers
\* The `host` option of the constructor (its default).
ConfiguredHost == "localhost"
Hosts == {ConfiguredHost, "example.com"}

\* Header names as a caller writes them, and the names a Headers object keeps.
HeaderNames == {"Host", "host", "x-forwarded-for"}
\* The [name, value] pairs a caller writes.
HeaderPairs ==
  {<<"Host", "caller.example">>, <<"host", "other.example">>,
   <<"x-forwarded-for", "10.0.0.1">>}
Lower(name) == IF name = "Host" THEN "host" ELSE name
Keys == {Lower(n) : n \in HeaderNames}
SortedKeys == << "host", "x-forwarded-for" >>

\* A HeadersInit: a list of [name, value] pairs.
HeaderLists == UNION {[1..n -> HeaderPairs] : n \in 0..MaxHeaders}

\* A Headers object: the value of each name, None for a name it does not have.
NoHeaders == [k \in Keys |-> None]

\* new Headers(init): names are lower-cased and the values of a repeated name
\* are joined with ", ".
RECURSIVE Headers(_)
Headers(list) ==
  IF list = << >> THEN NoHeaders
  ELSE LET h == Headers(SubSeq(list, 1, Len(list) - 1))
           e == list[Len(list)]
       IN [h EXCEPT ![Lower(e[1])] = IF @ = None THEN e[2] ELSE @ \o ", " \o e[2]]

\* [...headers]: the entries of a Headers object, sorted by name.
Entries(h) ==
  SelectSeq([i \in 1..Len(SortedKeys) |-> <<SortedKeys[i], h[SortedKeys[i]]>>],
            LAMBDA e : e[2] # None)

\* A fetch(input, requestInit) call: input is a string path ("path"), an
\* absolute URL as a string or a URL object ("url") or a Request ("request");
\* init tells whether requestInit is absent ("none"), has no headers
\* ("noheaders") or has headers.
FetchInput(kind, host, init, initHeaders, reqHeaders) ==
  [kind |-> kind, host |-> host, init |-> init, initHeaders |-> initHeaders,
   reqHeaders |-> reqHeaders]
NoCall == FetchInput(None, None, None, << >>, << >>)
InitOptions ==
  {<<"none", << >> >>, <<"noheaders", << >> >>} \cup {<<"headers", l>> : l \in HeaderLists}
Calls ==
  {FetchInput("path", ConfiguredHost, o[1], o[2], << >>) : o \in InitOptions}
  \cup {FetchInput("url", h, o[1], o[2], << >>) : h \in Hosts, o \in InitOptions}
  \cup {FetchInput("request", h, o[1], o[2], r) :
          h \in Hosts, o \in InitOptions, r \in HeaderLists}

\* defaultHeaders: host is the host of the url, which is new URL(input, base)
\* for a string and the url of the input otherwise.
DefaultHeaders(c) == [k \in Keys |-> IF k = "host" THEN c.host ELSE "127.0.0.1"]

\* parseHeaders that sets the defaults whatever the caller's headers hold.
ParseHeadersOverwrite(defaultHeaders, headers) == Entries(defaultHeaders)

\* parseHeaders(defaultHeaders, headers)
ParseHeaders(defaultHeaders, headers) ==
  LET h == Headers(headers) IN
  Entries([k \in Keys |-> IF h[k] # None THEN h[k] ELSE defaultHeaders[k]])

\* The headers fetch() hands to parseHeaders: requestInit.headers, else the
\* headers of the Request, else none.
CallerHeaders(c) ==
  IF c.init = "headers" THEN c.initHeaders
  ELSE IF c.kind = "request" THEN Entries(Headers(c.reqHeaders))
  ELSE << >>

\* init.headers of the fetch message for call c.
InitHeaders(c) == ParseHeaders(DefaultHeaders(c), CallerHeaders(c))

\* ------------------------------------------------------ Deferred
\* No Deferred has been constructed.
NoDeferred == [strict |-> FALSE, settled |-> FALSE, state |-> None, promise |-> NoOutcome]

\* new Deferred(strict)
NewDeferred(strict) ==
  [strict |-> strict, settled |-> FALSE, state |-> "pending", promise |-> NoOutcome]

\* The values and reasons a Deferred is settled with.
Values == {"a", "b"}

\* resolve() / reject() throws TypeError('Already settled.')
Throws(d) == d.settled /\ d.strict

\* The resolve / reject function of the Promise constructor: the first call
\* decides the fate of the promise, later calls do nothing.
PromiseSettle(promise, op, v) ==
  IF promise = NoOutcome THEN [kind |-> op, val |-> v] ELSE promise

\* A Deferred whose state follows the last call.
SettledLast(d, op, v) ==
  [d EXCEPT !.promise = PromiseSettle(@, op, v), !.settled = TRUE, !.state = op]

\* resolve(v) (op = "resolved") or reject(v) (op = "rejected") that does not throw.
Settled(d, op, v) ==
  [d EXCEPT !.promise = PromiseSettle(@, op, v),
            !.settled = TRUE,
            !.state = IF d.settled THEN @ ELSE op]

\* ------------------------------------------------------ Deno.env
\* Names and values of environment variables.
EnvKeys == {"DENO_DEPLOYMENT_ID", "A", "HOME"}
EnvValues == {"ffffffff", "B"}

\* An env object without entries (also: no env option).
NoEnv == [k \in EnvKeys |-> None]

\* The env options a caller gives: each sets DENO_DEPLOYMENT_ID, A, both or
\* neither.
EnvOptions ==
  {o \in [EnvKeys -> EnvValues \cup {None}] : o["HOME"] = None}

\* #env = new Map([["DENO_DEPLOYMENT_ID", "00000000"]])
DefaultEnv == [k \in EnvKeys |-> IF k = "DENO_DEPLOYMENT_ID" THEN "00000000" ELSE None]

\* A setEnv that keeps the entries #env has.
SetEnvKeep(env, obj) == [k \in EnvKeys |-> IF env[k] # None THEN env[k] ELSE obj[k]]

\* setEnv(obj): every entry of obj is set in #env.
SetEnv(env, obj) == [k \in EnvKeys |-> IF obj[k] # None THEN obj[k] ELSE env[k]]

\* What a call on Deno.env gives: get(k) the value (None: undefined),
\* toObject() the entries, set and delete a TypeError.
EnvResult(env, op, k) ==
  CASE op = "get" -> [kind |-> "value", val |-> env[k], obj |-> NoEnv]
    [] op = "toObject" -> [kind |-> "object", val |-> None, obj |-> env]
    [] op \in {"set", "delete"} -> [kind |-> "TypeError", val |-> None, obj |-> NoEnv]

\* ------------------------------------------------------ fileFetchHandler
\* A request the handler is called with: the scheme of its url, what the path
\* of the url is on disk, the extension of the path and the bytes of the file.
FileSchemes == {"file:", "https:"}
PathKinds == {"file", "directory", "missing"}
Extensions == {".html", ""}
Contents == {"a", "b"}
FileRequests ==
  [scheme : FileSchemes, kind : PathKinds, ext : Extensions, content : Contents]

\* await Deno.stat(url): rejects for a path that does not exist.
Stat(req) ==
  CASE req.kind = "missing" -> "NotFound"
    [] req.kind = "file" -> "isFile"
    [] OTHER -> "notFile"

\* contentType(lookup(url) ?? "") ?? "text/plain"
ContentTypeOf(ext) == IF ext = ".html" THEN "text/html; charset=utf-8" ELSE "text/plain"

NoResponse == [status |-> 0, body |-> None, contentType |-> None]

\* The handler without its try / catch, answering 404 for what is not a file: a
\* path that does not exist makes it throw before it responds.
FileFetchHandlerNoCatch(req) ==
  IF req.scheme # "file:" \/ Stat(req) = "NotFound"
  THEN [responded |-> FALSE, response |-> NoResponse]
  ELSE [responded |-> TRUE,
        response |-> IF Stat(req) = "isFile"
                     THEN [status |-> 200, body |-> req.content,
                           contentType |-> ContentTypeOf(req.ext)]
                     ELSE [status |-> 404, body |-> None, contentType |-> None]]

\* fileFetchHandler(evt): whether it calls evt.respondWith, and with what.
FileFetchHandler(req) ==
  IF req.scheme # "file:" THEN [responded |-> FALSE, response |-> NoResponse]
  ELSE [responded |-> TRUE,
        response |->
          CASE Stat(req) = "isFile" ->
                 [status |-> 200, body |-> req.content,
                  contentType |-> ContentTypeOf(req.ext)]
            [] Stat(req) = "notFile" ->
                 [status |-> 403, body |-> None, contentType |-> None]
            [] Stat(req) = "NotFound" ->
                 [status |-> 404, body |-> None, contentType |-> None]]

\* No start() has passed its await.
NoStart == [ready |-> None, st |-> None, res |-> None, after |-> None]

\* ------------------------------------------------------ info()
\* info() has not been called.
NoInfo == [fetchCount |-> 0 - 1, pendingFetches |-> 0 - 1]

VARIABLES
  state,           \* DeployWorker.#state
  ready,           \* DeployWorker.#ready (Deferred): "pending" | "resolved"
  fetchId,         \* DeployWorker.#fetchId
  pendingFetches,  \* DeployWorker.#pendingFetches (the ids whose deferred is pending)
  outcome,         \* what the deferred of each fetch() settled with
  settleOrder,     \* the ids in the order their deferreds settled
  asked,           \* the url each accepted fetch() was called with
  lastFetch,       \* the most recent fetch() call: state at the call, result, message posted
  toWorker,        \* messages posted by the controller, not yet handled by the shim
  toHost,          \* messages posted by the shim, not yet handled by the controller
  terminated,      \* Worker.terminate() has been called
  waiters,         \* start/stop/close calls suspended at their await, in call order
  jobs,            \* continuations whose await is satisfied (microtask queue)
  closeCalled,     \* close() has been called
  drained,         \* the fetches the close() that terminated the worker waited for
  hostAssert,      \* the message type at which an assert() of #handleMessage last failed
  runPc,           \* DeployWorker.run(): "idle" | "start" | "callback" | "close" | "done"
  cbOutcome,       \* what run()'s callback produced
  runResult,       \* what run()'s promise settled with
  globalListener,  \* shim: a listener is bound (Deno.listen was called)
  shimPhase,       \* shim: "new" | "ready" | "loaded"
  requestStream,   \* shim: globalRequestStream, the ids enqueued for accept()
  reqEvent,        \* shim: the event object user code holds for each id
  responded,       \* shim: accepted respondWith() calls per id
  awaiting,        \* shim: #postResponse calls suspended at `await res`, per id
  shimUrl,         \* shim: url of the Request rebuilt for each id
  sent,            \* number of respond/respondError messages posted per id
  fetchHandler,    \* DeployWorker.#fetchHandler is set (= shim #hasFetchHandler)
  bodyControllers, \* DeployWorker.#bodyControllers (keys)
  pendingRequests, \* DeployWorker.#pendingRequests (keys)
  shimAssert,      \* the message type at which an assert() of the shim last failed
  shimBodyControllers,     \* shim #bodyControllers (keys)
  responseBodyControllers, \* shim #responseBodyControllers (keys)
  shimChunks,      \* shim: the chunks enqueued through #bodyControllers ("request") and #responseBodyControllers ("response"), per id
  shimFetchId,     \* shim #fetchId
  shimPending,     \* shim #pendingFetches (keys)
  bodyPump,        \* position of each body loop: "idle" | "await" | "loop" | "done" | "nobody"
  bodyLog,         \* the body messages each loop has posted for its (id, subType)
  signalId,        \* DeployWorker.#signalId
  signalOf,        \* the signal id #watchSignal returned for each request (0: no signal)
  fired,           \* the requests whose AbortSignal has fired
  signalControllers, \* shim #signalControllers (keys)
  aborted,         \* the keys whose AbortController the shim has aborted
  thrown,          \* shim: what the promise given to respondWith rejected with, per id
  errorEvents,     \* error events of the worker that #handleError has logged
  warnings,        \* the message types logger.warn reported as unhandled, in order
  foreign,         \* number of messages of an unhandled type posted so far
  handlerResponded, \* accepted respondWith() calls on the controller's RequestEvent, per id
  handlerStyle,    \* the fetchHandler: "responds" (reads evt.request, calls respondWith and returns at once) | "free"
  handlerPc,       \* the fetchHandler call for each id: "running" | "awaitRespond" | "returned" | "assert"
  eventInit,       \* RequestEvent.#init.body.type of each id: "null" | "stream"
  eventRequest,    \* the ids whose RequestEvent has #request set
  eventBody,       \* the ids whose RequestEvent has #bodyController set
  eventChunks,     \* the chunks enqueued on the body stream of the RequestEvent of each id
  hostMissed,      \* request body messages that found a RequestEvent without #bodyController, with what happened
  bodyChunks,      \* the chunks enqueued on the body stream of the Response of each fetch()
  bodyEnd,         \* how that stream ended: "closed" | "errored"
  bodyStreams,     \* the streams the respond case has made for each id; #bodyControllers holds the controller of the latest
  callerStream,    \* which of them is the body of the Response fetch() resolved with (0: none)
  hdrCall,         \* the fetch() call whose headers are followed: input and requestInit
  hdrSeen,         \* shim: the headers of the Request rebuilt for that call
  deferred,        \* a Deferred: #strict, #settled, #state and the fate of #promise
  settles,         \* the resolve() / reject() calls made on it, with what each did
  emitted,         \* shim: the console calls of the script, in the order it made them
  logs,            \* DeployWorker.#logs: the lines enqueued on the stream, in order
  logsState,       \* state of the #logs stream: "readable" | "closed"
  read,            \* the consumer of .logs: number of lines it has read
  logsDone,        \* the consumer of .logs: its iteration has ended
  nextResults,     \* shim: what each nextRequest() / iteration step on the HttpConn of an id gave
  connClosed,      \* shim: the ids whose HttpConn has #closed set
  listens,         \* shim: what each Deno.listen() call of the script did, in order
  fetchArrivals,   \* shim: the fetch messages handled, in order: id and whether a listener was bound
  acceptedConns,   \* shim: the ids of the requests accept() / the listener's iterator handed out, in order
  acceptPc,        \* listen(): the accept loop: "idle" | "accept" | "done"
  connPc,          \* listen(): serve(conn) of each connection: "none" | "nextRequest" | "fetch" | "respondWith" | "done"
  connFetch,       \* listen(): the ids of the worker.fetch() calls serve(conn) made
  serverLogged,    \* listen(): the loops that called logger.error(err): "accept" or a connection
  lastInfo,        \* what the most recent info() call resolved with
  envOption,       \* the env option given to createWorker
  shimEnv,         \* shim: DeployDenoNs.#env
  envCalls,        \* shim: the calls the script made on Deno.env, with what each gave
  lastStart,       \* the most recent start() that passed its await: state before, result, state after
  fetchCalls,      \* the fetch() calls of the script: [input, handler, id, posted]
  respondBody,     \* shim: hasBody of the respond message posted for each id: "true" | "false"
  fileLog          \* the requests fileFetchHandler was called with, and what it did with each

hostVars == <<state, ready, fetchId, pendingFetches, outcome, settleOrder, asked,
              lastFetch, terminated, waiters, jobs, closeCalled, drained,
              hostAssert>>
runVars  == <<runPc, cbOutcome, runResult>>
shimVars == <<globalListener, shimPhase, requestStream, reqEvent, responded,
              awaiting, shimUrl, sent>>
chanVars == <<toWorker, toHost>>
hostBodyVars == <<bodyControllers, pendingRequests>>
shimBodyVars == <<shimAssert, shimBodyControllers, responseBodyControllers,
                  shimChunks, shimFetchId, shimPending>>
pumpVars == <<bodyPump, bodyLog>>
bodyVars == <<fetchHandler, hostBodyVars, shimBodyVars, pumpVars>>
hostSignalVars == <<signalId, signalOf, fired>>
shimSignalVars == <<signalControllers, aborted>>
signalVars == <<hostSignalVars, shimSignalVars>>
\* The state the lifecycle, exchange, streaming and abort actions leave alone.
responseBodyVars == <<bodyChunks, bodyEnd, bodyStreams, callerStream>>
eventVars == <<handlerStyle, handlerPc, eventInit, eventRequest, eventBody, eventChunks,
               hostMissed>>
hostSideVars == <<errorEvents, warnings, foreign, handlerResponded, responseBodyVars,
                  eventVars>>
deferredVars == <<deferred, settles>>
envVars == <<envOption, shimEnv, envCalls>>
callVars == <<lastInfo, envVars, fileLog, lastStart, respondBody, fetchCalls>>
pureVars == <<hdrCall, hdrSeen, deferredVars, callVars>>
logVars == <<logs, logsState, read, logsDone>>
listenVars == <<fetchArrivals, acceptedConns>>
serverVars == <<acceptPc, connPc, connFetch, serverLogged>>
denoVars == <<nextResults, connClosed, listens, listenVars, serverVars>>
sideVars == <<thrown, hostSideVars, pureVars, emitted, logVars, denoVars>>
vars == <<hostVars, runVars, shimVars, chanVars, bodyVars, signalVars, sideVars>>

\* ---------------------------------------------------------------- helpers
Msg(type, id, val, flag) ==
  [type |-> type, id |-> id, val |-> val, flag |-> flag, signal |-> 0, chunk |-> 0]

\* A fetch message: init.url, init.body.type = "stream", init.signal.
FetchMsg(id, url, stream, signal) ==
  [type |-> "fetch", id |-> id, val |-> url, flag |-> stream, signal |-> signal,
   chunk |-> 0]

\* Worker.postMessage: a terminated worker receives nothing.
PostToWorker(q, m) == IF terminated THEN q ELSE Append(q, m)

Accepting(s) == s = "running" \/ s = "stopped"

Call(op, run, snap) == [op |-> op, run |-> run, snap |-> snap, left |-> snap, res |-> None]

\* The await of a suspended call is satisfied.
IsReady(w, rdy) == IF w.op = "start" THEN rdy = "resolved" ELSE w.left = {}

Settle(w, id) == [w EXCEPT !.left = @ \ {id}]

SettleAll(ws, id) == [i \in 1..Len(ws) |-> Settle(ws[i], id)]

StillWaiting(ws, rdy) == SelectSeq(ws, LAMBDA w : ~IsReady(w, rdy))

NowReady(ws, rdy) == SelectSeq(ws, LAMBDA w : IsReady(w, rdy))

OfOp(ws, op) == SelectSeq(ws, LAMBDA w : w.op = op /\ ~w.run)

\* new DeployWorker(specifier, { env, ...options }): the state the constructor
\* leaves, the init message (which carries the options) posted.
Constructed(env) ==
  /\ state = "loading"
  /\ ready = "pending"
  /\ fetchId = 1
  /\ pendingFetches = {}
  /\ outcome = [i \in Ids |-> NoOutcome]
  /\ settleOrder = << >>
  /\ asked = [i \in Ids |-> None]
  /\ lastFetch = NoFetch
  /\ toWorker = << Msg("init", 0, None, FALSE) >>
  /\ toHost = << >>
  /\ terminated = FALSE
  /\ waiters = << >>
  /\ jobs = << >>
  /\ closeCalled = FALSE
  /\ drained = {}
  /\ hostAssert = None
  /\ runPc = "idle"
  /\ cbOutcome = None
  /\ runResult = None
  /\ globalListener = FALSE
  /\ fetchHandler = FALSE
  /\ shimPhase = "new"
  /\ requestStream = << >>
  /\ reqEvent = [i \in Ids |-> None]
  /\ responded = [i \in Ids |-> 0]
  /\ awaiting = [i \in Ids |-> 0]
  /\ shimUrl = [i \in Ids |-> None]
  /\ sent = [i \in Ids |-> 0]
  /\ bodyControllers = {}
  /\ pendingRequests = {}
  /\ shimAssert = None
  /\ shimBodyControllers = {}
  /\ responseBodyControllers = {}
  /\ shimFetchId = 1
  /\ shimPending = {}
  /\ bodyPump = [e \in Emitters |-> [i \in Ids |-> "idle"]]
  /\ bodyLog = [e \in Emitters |-> [i \in Ids |-> << >>]]
  /\ signalId = 1
  /\ signalOf = [i \in Ids |-> 0]
  /\ fired = {}
  /\ signalControllers = {}
  /\ aborted = {}
  /\ thrown = [i \in Ids |-> None]
  /\ errorEvents = 0
  /\ warnings = << >>
  /\ foreign = 0
  /\ handlerResponded = [i \in Ids |-> 0]
  /\ handlerStyle = "responds"
  /\ handlerPc = [i \in Ids |-> None]
  /\ eventInit = [i \in Ids |-> None]
  /\ eventRequest = {}
  /\ eventBody = {}
  /\ hostMissed = {}
  /\ eventChunks = [i \in Ids |-> << >>]
  /\ shimChunks = [sub \in {"request", "response"} |-> [i \in Ids |-> << >>]]
  /\ bodyChunks = [i \in Ids |-> << >>]
  /\ bodyEnd = [i \in Ids |-> None]
  /\ bodyStreams = [i \in Ids |-> 0]
  /\ callerStream = [i \in Ids |-> 0]
  /\ hdrCall = NoCall
  /\ hdrSeen = NoHeaders
  /\ deferred = NoDeferred
  /\ settles = << >>
  /\ emitted = << >>
  /\ logs = << >>
  /\ logsState = "readable"
  /\ read = 0
  /\ logsDone = FALSE
  /\ nextResults = [i \in Ids |-> << >>]
  /\ connClosed = {}
  /\ listens = << >>
  /\ fetchArrivals = << >>
  /\ acceptedConns = << >>
  /\ acceptPc = "idle"
  /\ connPc = [c \in Conns |-> "none"]
  /\ connFetch = [c \in Conns |-> {}]
  /\ serverLogged = {}
  /\ lastInfo = NoInfo
  /\ envOption = env
  /\ shimEnv = DefaultEnv
  /\ envCalls = << >>
  /\ fileLog = << >>
  /\ lastStart = NoStart
  /\ respondBody = [i \in Ids |-> None]
  /\ fetchCalls = << >>

Init == Constructed(NoEnv)

\* ------------------------------------------------- controller: fetch()
\* fetch() without its check for the stopped state.
FetchGateNoStopped(s) ==
  IF s = "loading" \/ s = "errored" THEN "throws"
  ELSE IF s = "closed" \/ s = "closing" THEN "rejected: closing or closed"
  ELSE "sent"

\* The state checks at the head of fetch().
FetchGate(s) ==
  IF s = "loading" \/ s = "errored" THEN "throws"
  ELSE IF s = "closed" \/ s = "closing" THEN "rejected: closing or closed"
  ELSE IF s = "stopped" THEN "rejected: currently stopped"
  ELSE "sent"

\* #watchSignal(signal): the id of the abort messages for this signal, 0 for
\* no signal.
WatchSignal(signal) == IF signal THEN signalId ELSE 0

\* fetch(input, requestInit): a string path or a Request for url, with a
\* ReadableStream body (stream) and an AbortSignal (signal) or without.
FetchBy(url, stream, signal) ==
  LET gate == FetchGate(state) IN
  /\ gate = "sent" => fetchId <= MaxFetch
  /\ IF gate = "sent"
     THEN /\ fetchId' = fetchId + 1
          /\ pendingFetches' = pendingFetches \cup {fetchId}
          /\ asked' = [asked EXCEPT ![fetchId] = url]
          /\ signalId' = IF signal THEN signalId + 1 ELSE signalId
          /\ signalOf' = [signalOf EXCEPT ![fetchId] = WatchSignal(signal)]
          /\ toWorker' = PostToWorker(toWorker,
                            FetchMsg(fetchId, url, stream, WatchSignal(signal)))
          /\ bodyPump' = IF stream
                         THEN [bodyPump EXCEPT !["DeployWorker.streamBody"][fetchId] = "loop"]
                         ELSE bodyPump
     ELSE UNCHANGED <<fetchId, pendingFetches, asked, signalId, signalOf, toWorker,
                      bodyPump>>
  /\ UNCHANGED <<state, ready, outcome, settleOrder, terminated, waiters, jobs,
                 closeCalled, drained, hostAssert, toHost>>
  /\ UNCHANGED <<runVars, shimVars, fetchHandler, hostBodyVars, shimBodyVars, bodyLog,
                 fired, shimSignalVars>>

\* A fetch() call of the user of the controller.
FetchCall(url, stream, signal) == FetchBy(url, stream, signal) /\ UNCHANGED sideVars

\* What a fetch() call whose input is no string, URL or Request asked for, and
\* what the call did.
Unsupported == "(unsupported)"
ThrowsOnInput == "throws: unsupported input"

\* fetch(input) with an input that is no string, no URL and no Request: after
\* the state checks the id is taken and the Deferred stored, then the chain of
\* type tests ends in `throw new TypeError(...)`; nothing is posted.
FetchUnsupported ==
  LET gate == FetchGate(state) IN
  /\ gate = "sent" => fetchId <= MaxFetch
  /\ IF gate = "sent"
     THEN /\ fetchId' = fetchId + 1
          /\ pendingFetches' = pendingFetches \cup {fetchId}
          /\ asked' = [asked EXCEPT ![fetchId] = Unsupported]
     ELSE UNCHANGED <<fetchId, pendingFetches, asked>>
  /\ lastFetch' = [st |-> state, res |-> IF gate = "sent" THEN ThrowsOnInput ELSE gate,
                   posted |-> FALSE]
  /\ UNCHANGED <<state, ready, outcome, settleOrder, terminated, waiters, jobs,
                 closeCalled, drained, hostAssert>>
  /\ UNCHANGED <<runVars, shimVars, chanVars, bodyVars, signalVars>>
  /\ UNCHANGED sideVars

\* fetch(path): no body, no signal.
Fetch(url) == FetchCall(url, FALSE, FALSE) /\ UNCHANGED lastFetch

\* fetch(new Request(path, { body: stream })).
FetchStream(url) ==
  /\ fetchId <= MaxStreamFetch
  /\ FetchCall(url, TRUE, FALSE)
  /\ UNCHANGED lastFetch

\* fetch(path, { signal }) or fetch(path).
FetchSignal(url, signal) == FetchCall(url, FALSE, signal) /\ UNCHANGED lastFetch

\* fetch(), the caller noting the state at the call, what the call returned and
\* whether a message was posted.
FetchObserved(url) ==
  /\ FetchCall(url, FALSE, FALSE)
  /\ lastFetch' = [st |-> state, res |-> FetchGate(state),
                   posted |-> toWorker' # toWorker]

\* ------------------------------------- controller: start / stop / close
\* A call reaches its await: it continues at once (as a job) when the awaited
\* promise is already settled, and waits otherwise.
Suspend(w) ==
  IF IsReady(w, ready)
  THEN /\ jobs' = Append(jobs, w)
       /\ UNCHANGED waiters
  ELSE /\ waiters' = Append(waiters, w)
       /\ UNCHANGED jobs

\* The user's calls of `op` that are suspended at their await.
Outstanding(op) == Len(OfOp(waiters, op)) + Len(OfOp(jobs, op))

\* start(): await this.#ready.promise
Start ==
  /\ Outstanding("start") < MaxOutstanding
  /\ Suspend(Call("start", FALSE, {}))
  /\ UNCHANGED <<state, ready, fetchId, pendingFetches, outcome, settleOrder, asked,
                 lastFetch, terminated, closeCalled, drained, hostAssert>>
  /\ UNCHANGED <<runVars, shimVars, chanVars, bodyVars, signalVars>>
  /\ UNCHANGED sideVars

\* stop() up to its await: "throws" | "rejected" | "waits" | "returns"
StopGate(s) ==
  IF s = "loading" \/ s = "errored" THEN "throws"
  ELSE IF s = "closed" \/ s = "closing" THEN "rejected"
  ELSE IF s = "running" THEN "waits"
  ELSE "returns"

Stop ==
  /\ Outstanding("stop") < MaxOutstanding
  /\ IF StopGate(state) = "waits"
     THEN Suspend(Call("stop", FALSE, pendingFetches))
     ELSE UNCHANGED <<waiters, jobs>>
  /\ UNCHANGED <<state, ready, fetchId, pendingFetches, outcome, settleOrder, asked,
                 lastFetch, terminated, closeCalled, drained, hostAssert>>
  /\ UNCHANGED <<runVars, shimVars, chanVars, bodyVars, signalVars>>
  /\ UNCHANGED sideVars

\* close() up to its await, called by the user (run = FALSE) or by run().
CloseCall(run) ==
  /\ state' = "closing"
  /\ closeCalled' = TRUE
  /\ Suspend(Call("close", run, pendingFetches))

Close ==
  /\ Outstanding("close") < MaxOutstanding
  /\ CloseCall(FALSE)
  /\ UNCHANGED <<ready, fetchId, pendingFetches, outcome, settleOrder, asked,
                 lastFetch, terminated, drained, hostAssert>>
  /\ UNCHANGED <<runVars, shimVars, chanVars, bodyVars, signalVars>>
  /\ UNCHANGED sideVars

\* ------------------------------------------------------ controller: run()
\* run(callback): await this.start()
Run ==
  /\ runPc = "idle"
  /\ runPc' = "start"
  /\ Suspend(Call("start", TRUE, {}))
  /\ UNCHANGED <<state, ready, fetchId, pendingFetches, outcome, settleOrder, asked,
                 lastFetch, terminated, closeCalled, drained, hostAssert>>
  /\ UNCHANGED <<cbOutcome, runResult>>
  /\ UNCHANGED <<shimVars, chanVars, bodyVars, signalVars>>
  /\ UNCHANGED sideVars

\* run() with close() after the callback instead of in a finally block: a
\* callback that throws settles run() at once.
CallbackDoneNoFinally(kind) ==
  /\ runPc = "callback"
  /\ cbOutcome' = kind
  /\ IF kind = "throw"
     THEN /\ runPc' = "done"
          /\ runResult' = kind
          /\ UNCHANGED <<state, closeCalled, waiters, jobs>>
     ELSE /\ runPc' = "close"
          /\ CloseCall(TRUE)
          /\ UNCHANGED runResult
  /\ UNCHANGED <<ready, fetchId, pendingFetches, outcome, settleOrder, asked,
                 lastFetch, terminated, drained, hostAssert>>
  /\ UNCHANGED <<shimVars, chanVars, bodyVars, signalVars>>
  /\ UNCHANGED sideVars

\* The callback settles (returns v or throws e); the finally block calls close().
CallbackDone(kind) ==
  /\ runPc = "callback"
  /\ runPc' = "close"
  /\ cbOutcome' = kind
  /\ CloseCall(TRUE)
  /\ UNCHANGED <<ready, fetchId, pendingFetches, outcome, settleOrder, asked,
                 lastFetch, terminated, drained, hostAssert>>
  /\ UNCHANGED runResult
  /\ UNCHANGED <<shimVars, chanVars, bodyVars, signalVars>>
  /\ UNCHANGED sideVars

\* ----------------------------------------- controller: after the awaits
\* start() that resolves in every state it does not throw in.
StartGateOpen(s) ==
  IF s = "loading" \/ s = "errored" THEN "throws" ELSE "resolved"

\* start() after `await this.#ready.promise`.
StartGate(s) ==
  IF s = "loading" \/ s = "errored" THEN "throws"
  ELSE IF s = "closed" \/ s = "closing" THEN "rejected"
  ELSE "resolved"

StartState(s) == IF s = "stopped" THEN "running" ELSE s

SettleJob(r) == [op |-> "settle", run |-> TRUE, snap |-> {}, left |-> {}, res |-> r]

\* start() after its await; as run()'s start, a rejection settles run().
AfterStart(j, rest) ==
  /\ state' = (IF StartGate(state) = "resolved" THEN StartState(state) ELSE state)
  /\ lastStart' = [ready |-> ready, st |-> state, res |-> StartGate(state),
                   after |-> state']
  /\ runPc' = (IF j.run /\ StartGate(state) = "resolved" THEN "callback" ELSE runPc)
  /\ jobs' = (IF j.run /\ StartGate(state) # "resolved"
              THEN Append(rest, SettleJob("start " \o StartGate(state)))
              ELSE rest)
  /\ UNCHANGED <<terminated, drained, runResult>>

\* stop() after `await Promise.allSettled(...)`.
AfterStop(j, rest) ==
  /\ state' = "stopped"
  /\ jobs' = rest
  /\ UNCHANGED <<terminated, drained, runPc, runResult, lastStart>>

\* close() that terminates the worker and forgets to set the state.
AfterCloseNoState(j, rest) ==
  /\ terminated' = TRUE
  /\ drained' = j.snap
  /\ jobs' = (IF j.run THEN Append(rest, SettleJob(cbOutcome)) ELSE rest)
  /\ UNCHANGED <<state, runPc, runResult, lastStart>>

\* close() after `await Promise.allSettled(...)`; as run()'s close, run() then
\* settles with what the callback produced.
AfterClose(j, rest) ==
  /\ terminated' = TRUE
  /\ state' = "closed"
  /\ drained' = j.snap
  /\ jobs' = (IF j.run THEN Append(rest, SettleJob(cbOutcome)) ELSE rest)
  /\ UNCHANGED <<runPc, runResult, lastStart>>

\* run()'s promise settles.
AfterRun(j, rest) ==
  /\ runPc' = "done"
  /\ runResult' = j.res
  /\ jobs' = rest
  /\ UNCHANGED <<state, terminated, drained, lastStart>>

\* The job at the head of the microtask queue runs.
ResumeJob ==
  /\ jobs # << >>
  /\ LET j == Head(jobs)
         rest == Tail(jobs)
     IN
     CASE j.op = "start" -> AfterStart(j, rest)
       [] j.op = "stop" -> AfterStop(j, rest)
       [] j.op = "close" -> AfterClose(j, rest)
       [] j.op = "settle" -> AfterRun(j, rest)
  /\ UNCHANGED <<ready, fetchId, pendingFetches, outcome, settleOrder, asked,
                 lastFetch, waiters, closeCalled, hostAssert, cbOutcome>>
  /\ UNCHANGED <<shimVars, chanVars, bodyVars, signalVars>>
  /\ UNCHANGED <<thrown, hostSideVars, hdrCall, hdrSeen, deferredVars, lastInfo, envVars,
                 fileLog, respondBody, fetchCalls, emitted, logVars, denoVars>>

\* --------------------------------------- controller: #handleMessage
\* A handler that settles the oldest pending fetch, whatever id the message carries.
PendingKeyOldest(m) ==
  IF pendingFetches = {} THEN m.id
  ELSE CHOOSE i \in pendingFetches : \A k \in pendingFetches : i <= k

\* The key under which a respond / respondError message looks up its deferred.
PendingKey(m) == m.id

\* Settling the deferreds of `id` satisfies the awaits that waited on it.
Release(ws, rdy) ==
  /\ waiters' = StillWaiting(ws, rdy)
  /\ jobs' = jobs \o NowReady(ws, rdy)

\* case "ready"
HandleReady(m) ==
  /\ IF state = "loading"
     THEN /\ toWorker' = PostToWorker(toWorker, Msg("import", 0, None, FALSE))
          /\ UNCHANGED hostAssert
     ELSE /\ hostAssert' = m.type
          /\ UNCHANGED toWorker
  /\ UNCHANGED <<state, ready, pendingFetches, outcome, settleOrder, waiters, jobs,
                 bodyControllers, pendingRequests, bodyPump>>

\* case "loaded"
HandleLoaded(m) ==
  /\ IF state = "loading"
     THEN /\ ready' = "resolved"
          /\ state' = "stopped"
          /\ Release(waiters, "resolved")
          /\ UNCHANGED hostAssert
     ELSE /\ hostAssert' = m.type
          /\ UNCHANGED <<state, ready, waiters, jobs>>
  /\ UNCHANGED <<pendingFetches, outcome, settleOrder, toWorker,
                 bodyControllers, pendingRequests, bodyPump>>

\* A respond case that makes a body stream for every response.
RegistersBodyAlways(m) == m.type = "respond"

\* case "respond": `if (hasBody)` a body stream is made, whose start callback
\* registers its controller.
RegistersBody(m) == m.type = "respond" /\ m.flag

\* case "respond" / case "respondError": a respond with hasBody registers the
\* body controller while the Response is built, before the deferred is looked up.
HandleRespond(m) ==
  /\ bodyControllers' = IF RegistersBody(m)
                        THEN bodyControllers \cup {m.id}
                        ELSE bodyControllers
  /\ bodyStreams' = IF RegistersBody(m)
                    THEN [bodyStreams EXCEPT ![m.id] = @ + 1]
                    ELSE bodyStreams
  /\ LET id == PendingKey(m) IN
     callerStream' = IF id \in pendingFetches /\ RegistersBody(m)
                     THEN [callerStream EXCEPT ![id] = bodyStreams'[m.id]]
                     ELSE callerStream
  /\ UNCHANGED <<bodyChunks, bodyEnd>>
  /\ LET id == PendingKey(m) IN
     IF id \in pendingFetches
     THEN /\ pendingFetches' = pendingFetches \ {id}
          /\ outcome' = [outcome EXCEPT ![id] =
                [kind |-> IF m.type = "respond" THEN "resolved" ELSE "rejected",
                 val |-> m.val]]
          /\ settleOrder' = Append(settleOrder, id)
          /\ Release(SettleAll(waiters, id), ready)
          /\ UNCHANGED hostAssert
     ELSE /\ hostAssert' = m.type
          /\ UNCHANGED <<pendingFetches, outcome, settleOrder, waiters, jobs>>
  /\ UNCHANGED <<state, ready, toWorker, pendingRequests, bodyPump>>

\* An enqueue that puts the chunk at the head of the stream's queue.
EnqueueFront(q, chunk) == << chunk >> \o q

\* bodyController.enqueue(chunk)
Enqueue(q, chunk) == Append(q, chunk)

\* RequestEvent.enqueue / close / error on an event that has no #bodyController:
\* enqueue throws an Error, close and error do nothing (`?.`).
EventWithoutBody(type) == IF type = "bodyChunk" THEN "error" ELSE "ignored"

\* The controller #bodyControllers holds for id is the one of the stream the
\* caller of fetch() was given.
ToCaller(id) == bodyStreams[id] = callerStream[id]

\* case "bodyChunk" / "bodyClose" / "bodyError": m.val is the subType.
HandleBody(m) ==
  /\ IF m.val = "response"
     THEN IF m.id \in bodyControllers
          THEN /\ bodyControllers' = IF m.type \in Terminals
                                     THEN bodyControllers \ {m.id}
                                     ELSE bodyControllers
               /\ bodyChunks' = IF m.type = "bodyChunk" /\ ToCaller(m.id)
                                THEN [bodyChunks EXCEPT ![m.id] = Enqueue(@, m.chunk)]
                                ELSE bodyChunks
               /\ bodyEnd' = CASE m.type = "bodyClose" /\ ToCaller(m.id) ->
                                     [bodyEnd EXCEPT ![m.id] = "closed"]
                                [] m.type = "bodyError" /\ ToCaller(m.id) ->
                                     [bodyEnd EXCEPT ![m.id] = "errored"]
                                [] OTHER -> bodyEnd
               /\ UNCHANGED <<bodyStreams, callerStream>>
               /\ UNCHANGED <<hostAssert, hostMissed, eventChunks>>
          ELSE /\ hostAssert' = m.type
               /\ UNCHANGED <<bodyControllers, responseBodyVars, hostMissed, eventChunks>>
     ELSE /\ hostAssert' = IF m.id \in pendingRequests THEN hostAssert ELSE m.type
          /\ eventChunks' = IF m.type = "bodyChunk" /\ m.id \in pendingRequests
                                 /\ m.id \in eventBody
                            THEN [eventChunks EXCEPT ![m.id] = Enqueue(@, m.chunk)]
                            ELSE eventChunks
          /\ hostMissed' = IF m.id \in pendingRequests /\ m.id \notin eventBody
                           THEN hostMissed \cup {[id |-> m.id, type |-> m.type,
                                                  how |-> EventWithoutBody(m.type)]}
                           ELSE hostMissed
          /\ UNCHANGED <<bodyControllers, responseBodyVars>>
  /\ UNCHANGED <<handlerStyle, handlerPc, eventInit, eventRequest, eventBody>>
  /\ UNCHANGED <<state, ready, pendingFetches, outcome, settleOrder, waiters, jobs,
                 toWorker, pendingRequests, bodyPump>>

\* case "fetch": #handleFetch(id, init) up to `await this.#fetchHandler(...)`;
\* the handler reads evt.request and calls evt.respondWith().
HandleFetch(m) ==
  /\ IF fetchHandler
     THEN /\ pendingRequests' = pendingRequests \cup {m.id}
          /\ eventInit' = [eventInit EXCEPT ![m.id] = IF m.flag THEN "stream" ELSE "null"]
          /\ IF handlerStyle = "responds"
             THEN /\ eventRequest' = eventRequest \cup {m.id}
                  /\ eventBody' = IF m.flag THEN eventBody \cup {m.id} ELSE eventBody
                  /\ handlerPc' = [handlerPc EXCEPT ![m.id] = "returned"]
                  /\ bodyPump' = [bodyPump EXCEPT !["RequestEvent.finalize"][m.id] = "await"]
             ELSE /\ handlerPc' = [handlerPc EXCEPT ![m.id] = "running"]
                  /\ UNCHANGED <<eventRequest, eventBody, bodyPump>>
     ELSE UNCHANGED <<pendingRequests, bodyPump, handlerPc, eventInit, eventRequest,
                      eventBody>>
  /\ UNCHANGED <<handlerStyle, hostMissed, eventChunks>>
  /\ UNCHANGED <<state, ready, pendingFetches, outcome, settleOrder, waiters, jobs,
                 hostAssert, toWorker, bodyControllers>>

\* The line a log message puts on the stream: `${error ? "error: " : ""}${message}`
LogLine(m) == <<IF m.flag THEN "error: " ELSE "", m.val>>

\* An enqueue that puts the line at the head of the stream's queue.
LogEnqueueFront(q, line) == << line >> \o q

\* #logsController.enqueue(line)
LogEnqueue(q, line) == Append(q, line)

\* case "log"
HandleLog(m) ==
  /\ logs' = LogEnqueue(logs, LogLine(m))
  /\ UNCHANGED <<state, ready, pendingFetches, outcome, settleOrder, waiters, jobs,
                 hostAssert, toWorker, bodyControllers, pendingRequests, bodyPump>>

\* The message types #handleMessage of the controller has a case for.
HostTypes ==
  {"bodyChunk", "bodyClose", "bodyError", "internalLog", "fetch", "loaded", "log",
   "ready", "respond", "respondError"}

\* A default case whose handler fails.
HandleUnknownThrows(m) ==
  /\ hostAssert' = m.type
  /\ UNCHANGED <<state, ready, pendingFetches, outcome, settleOrder, waiters, jobs,
                 toWorker, bodyControllers, pendingRequests, bodyPump>>

\* default: logger.warn(`Unhandled message type: "${data.type}"`); also case
\* "internalLog", which only logs.
HandleUnknown(m) ==
  UNCHANGED <<state, ready, pendingFetches, outcome, settleOrder, waiters, jobs,
              hostAssert, toWorker, bodyControllers, pendingRequests, bodyPump>>

HostHandleMessage ==
  /\ toHost # << >>
  /\ ~terminated
  /\ jobs = << >>
  /\ toHost' = Tail(toHost)
  /\ LET m == Head(toHost) IN
     /\ CASE m.type = "ready" ->
               HandleReady(m) /\ UNCHANGED <<logs, responseBodyVars, eventVars>>
          [] m.type = "loaded" ->
               HandleLoaded(m) /\ UNCHANGED <<logs, responseBodyVars, eventVars>>
          [] m.type \in {"respond", "respondError"} ->
               HandleRespond(m) /\ UNCHANGED <<logs, eventVars>>
          [] m.type \in {"bodyChunk", "bodyClose", "bodyError"} ->
               HandleBody(m) /\ UNCHANGED logs
          [] m.type = "fetch" -> HandleFetch(m) /\ UNCHANGED <<logs, responseBodyVars>>
          [] m.type = "log" -> HandleLog(m) /\ UNCHANGED <<responseBodyVars, eventVars>>
          [] OTHER -> HandleUnknown(m) /\ UNCHANGED <<logs, responseBodyVars, eventVars>>
     /\ warnings' = IF m.type \in HostTypes THEN warnings ELSE Append(warnings, m.type)
  /\ UNCHANGED <<fetchId, asked, lastFetch, terminated, closeCalled, drained>>
  /\ UNCHANGED <<runVars, shimVars, fetchHandler, shimBodyVars, bodyLog, signalVars>>
  /\ UNCHANGED <<thrown, errorEvents, foreign, handlerResponded, pureVars, emitted,
                 logsState, read, logsDone, denoVars>>

\* ------------------------------------------- shim: #handleMessage
\* The id the respondWith closure built for fetch message m answers with.
ClosureId(m) == m.id

\* The key under which #parseInit stores the AbortController of fetch message m.
SignalKey(m) == m.id

\* case "init" and case "import": await import(specifier) runs the script's top
\* level, which registers a fetch listener or binds a listener with Deno.listen().
ShimInit(m) ==
  /\ IF m.type = "init"
     THEN /\ shimPhase' = "ready"
          /\ toHost' = Append(toHost, Msg("ready", 0, None, FALSE))
          /\ UNCHANGED globalListener
     ELSE /\ shimPhase' = "loaded"
          /\ globalListener' \in BOOLEAN
          /\ toHost' = Append(toHost, Msg("loaded", 0, None, FALSE))
  /\ UNCHANGED <<requestStream, reqEvent, shimUrl, shimBodyVars, shimSignalVars>>

\* case "fetch": #parseInit(id, init), then the request is enqueued for the
\* listener or dispatched as a FetchEvent.
ShimFetch(m) ==
  IF (m.flag /\ m.id \in shimBodyControllers)
       \/ (m.signal # 0 /\ SignalKey(m) \in signalControllers)
  THEN /\ shimAssert' = m.type
       /\ UNCHANGED <<shimPhase, globalListener, toHost, requestStream, reqEvent,
                      shimUrl, shimBodyControllers, responseBodyControllers,
                      shimChunks, shimFetchId, shimPending, shimSignalVars>>
  ELSE /\ shimBodyControllers' = IF m.flag THEN shimBodyControllers \cup {m.id}
                                 ELSE shimBodyControllers
       /\ signalControllers' = IF m.signal # 0
                               THEN signalControllers \cup {SignalKey(m)}
                               ELSE signalControllers
       /\ shimUrl' = [shimUrl EXCEPT ![ClosureId(m)] = m.val]
       /\ IF globalListener
          THEN /\ requestStream' = Append(requestStream, ClosureId(m))
               /\ UNCHANGED reqEvent
          ELSE /\ reqEvent' = [reqEvent EXCEPT ![ClosureId(m)] = "FetchEvent"]
               /\ UNCHANGED requestStream
       /\ UNCHANGED <<shimPhase, globalListener, toHost, shimAssert,
                      responseBodyControllers, shimChunks, shimFetchId, shimPending,
                      aborted>>

\* case "abort"
ShimAbort(m) ==
  /\ IF m.id \in signalControllers
     THEN /\ aborted' = aborted \cup {m.id}
          /\ signalControllers' = signalControllers \ {m.id}
     ELSE UNCHANGED <<aborted, signalControllers>>
  /\ UNCHANGED <<shimPhase, globalListener, toHost, requestStream, reqEvent, shimUrl,
                 shimBodyVars>>

\* A shim that looks every body message up in #bodyControllers.
BodyTableRequest(m) == "request"

\* `if (subType === "request")`: the table a body message is looked up in.
BodyTable(m) == m.val

\* case "bodyChunk" / "bodyClose" / "bodyError": m.val is the subType.
ShimBody(m) ==
  /\ IF BodyTable(m) = "request"
     THEN /\ IF m.id \in shimBodyControllers
             THEN /\ shimBodyControllers' = IF m.type \in Terminals
                                            THEN shimBodyControllers \ {m.id}
                                            ELSE shimBodyControllers
                  /\ shimChunks' = IF m.type = "bodyChunk"
                                   THEN [shimChunks EXCEPT !["request"][m.id] =
                                           Enqueue(@, m.chunk)]
                                   ELSE shimChunks
                  /\ UNCHANGED shimAssert
             ELSE /\ shimAssert' = m.type
                  /\ UNCHANGED <<shimBodyControllers, shimChunks>>
          /\ UNCHANGED responseBodyControllers
     ELSE /\ IF m.id \in responseBodyControllers
             THEN /\ responseBodyControllers' = IF m.type \in Terminals
                                                THEN responseBodyControllers \ {m.id}
                                                ELSE responseBodyControllers
                  /\ shimChunks' = IF m.type = "bodyChunk"
                                   THEN [shimChunks EXCEPT !["response"][m.id] =
                                           Enqueue(@, m.chunk)]
                                   ELSE shimChunks
                  /\ UNCHANGED shimAssert
             ELSE /\ shimAssert' = m.type
                  /\ UNCHANGED <<responseBodyControllers, shimChunks>>
          /\ UNCHANGED shimBodyControllers
  /\ UNCHANGED <<shimPhase, globalListener, toHost, requestStream, reqEvent, shimUrl,
                 shimFetchId, shimPending, shimSignalVars>>

\* case "respond" / case "respondError": the answer to a fetch() of the script.
ShimRespond(m) ==
  /\ responseBodyControllers' = IF m.type = "respond" /\ m.flag
                                THEN responseBodyControllers \cup {m.id}
                                ELSE responseBodyControllers
  /\ IF m.id \in shimPending
     THEN /\ shimPending' = shimPending \ {m.id}
          /\ UNCHANGED shimAssert
     ELSE /\ shimAssert' = m.type
          /\ UNCHANGED shimPending
  /\ UNCHANGED <<shimPhase, globalListener, toHost, requestStream, reqEvent, shimUrl,
                 shimBodyControllers, shimChunks, shimFetchId, shimSignalVars>>

\* The message types #handleMessage of the shim has a case for.
ShimTypes ==
  {"abort", "bodyChunk", "bodyClose", "bodyError", "init", "import", "fetch",
   "readFileResponse", "respond", "respondError"}

\* The console call the shim's default case makes: the line goes to #print.
UnhandledLine(m) ==
  [id |-> 0, n |-> Len(emitted) + 1, error |-> TRUE, before |-> FALSE]

\* default: console.error(`error: [${self.name}] Unhandled message type: ...`),
\* which the shim's console posts as a log message.
ShimUnknown(m) ==
  /\ toHost' = Append(toHost, Msg("log", 0, UnhandledLine(m).n, TRUE))
  /\ UNCHANGED <<shimPhase, globalListener, requestStream, reqEvent, shimUrl,
                 shimBodyVars, shimSignalVars>>

ShimHandleMessage ==
  /\ toWorker # << >>
  /\ ~terminated
  /\ toWorker' = Tail(toWorker)
  /\ LET m == Head(toWorker) IN
     /\ CASE m.type \in {"init", "import"} -> ShimInit(m)
          [] m.type = "fetch" -> ShimFetch(m)
          [] m.type = "abort" -> ShimAbort(m)
          [] m.type \in {"bodyChunk", "bodyClose", "bodyError"} -> ShimBody(m)
          [] m.type \in {"respond", "respondError"} -> ShimRespond(m)
          [] m.type \notin ShimTypes -> ShimUnknown(m)
     /\ emitted' = IF m.type \in ShimTypes THEN emitted
                   ELSE Append(emitted, UnhandledLine(m))
     /\ shimEnv' = IF m.type = "init" THEN SetEnv(shimEnv, envOption) ELSE shimEnv
     /\ fetchArrivals' = IF m.type = "fetch"
                          THEN Append(fetchArrivals,
                                      [id |-> m.id, listener |-> globalListener])
                          ELSE fetchArrivals
  /\ UNCHANGED <<responded, awaiting, sent>>
  /\ UNCHANGED <<hostVars, runVars, fetchHandler, hostBodyVars, pumpVars, hostSignalVars>>
  /\ UNCHANGED <<thrown, hostSideVars, hdrCall, hdrSeen, deferredVars, lastInfo,
                 envOption, envCalls, fileLog, lastStart, respondBody, fetchCalls, logVars,
                 nextResults, connClosed, listens, acceptedConns, serverVars>>

\* listen() that binds a new listener whether or not one is bound.
ListenResultRebind(bound) == "listener"

\* listen(): 'dectyl currently only supports on listener per runtime'
ListenResult(bound) == IF bound THEN "TypeError" ELSE "listener"

\* The script calls Deno.listen({ port }).
Listen ==
  /\ ~terminated
  /\ shimPhase = "loaded"
  /\ Len(listens) < MaxListen
  /\ listens' = Append(listens, ListenResult(globalListener))
  /\ globalListener' = TRUE
  /\ UNCHANGED <<shimPhase, requestStream, reqEvent, responded, awaiting, shimUrl, sent>>
  /\ UNCHANGED <<hostVars, runVars, chanVars, bodyVars, signalVars>>
  /\ UNCHANGED <<thrown, hostSideVars, pureVars, emitted, logVars, nextResults,
                 connClosed, listenVars, serverVars>>

\* HttpConn.nextRequest(): a new iterator is made for the call and taken one
\* step; the iterator yields the request event unless #closed is set.
NextRequestResult(closed) == IF closed THEN "null" ELSE "event"

\* A read that gives the chunk enqueued last.
ReaderReadNewest(stream) == stream[Len(stream)]

\* reader.read() on the request stream: the chunk enqueued first.
ReaderRead(stream) == Head(stream)

\* Listener.accept() / serveHttp(conn).nextRequest(): the script takes the next
\* enqueued request as a RequestEvent.
Accept ==
  /\ ~terminated
  /\ requestStream # << >>
  /\ LET id == ReaderRead(requestStream) IN
     /\ requestStream' = Tail(requestStream)
     /\ reqEvent' = [reqEvent EXCEPT ![id] = "RequestEvent"]
     /\ nextResults' = [nextResults EXCEPT ![id] = << NextRequestResult(FALSE) >>]
     /\ acceptedConns' = Append(acceptedConns, id)
  /\ UNCHANGED <<globalListener, shimPhase, responded, awaiting, shimUrl, sent>>
  /\ UNCHANGED <<hostVars, runVars, chanVars, bodyVars, signalVars>>
  /\ UNCHANGED <<thrown, hostSideVars, pureVars, emitted, logVars, connClosed, listens,
                 fetchArrivals, serverVars>>

\* The script calls nextRequest() again on the HttpConn of request id.
NextRequest(id) ==
  /\ ~terminated
  /\ reqEvent[id] = "RequestEvent"
  /\ Len(nextResults[id]) < MaxNext
  /\ nextResults' = [nextResults EXCEPT ![id] =
                       Append(@, NextRequestResult(id \in connClosed))]
  /\ UNCHANGED <<hostVars, runVars, shimVars, chanVars, bodyVars, signalVars>>
  /\ UNCHANGED <<thrown, hostSideVars, pureVars, emitted, logVars, connClosed, listens,
                 listenVars, serverVars>>

\* A script that took the request event with `for await (const evt of httpConn)`
\* takes the next step of that iteration: the iterator resumes after its yield,
\* sets #closed and ends.
IterNext(id) ==
  /\ ~terminated
  /\ reqEvent[id] = "RequestEvent"
  /\ id \notin connClosed
  /\ Len(nextResults[id]) < MaxNext
  /\ connClosed' = connClosed \cup {id}
  /\ nextResults' = [nextResults EXCEPT ![id] = Append(@, "null")]
  /\ UNCHANGED <<hostVars, runVars, shimVars, chanVars, bodyVars, signalVars>>
  /\ UNCHANGED <<thrown, hostSideVars, pureVars, emitted, logVars, listens, listenVars,
                 serverVars>>

\* respondWith() of the event object `kind` on which n calls were accepted:
\* TRUE when the call is accepted (and #postResponse is started, or the
\* controller's #response is set).  The shim's FetchEvent and the controller's
\* RequestEvent check for an earlier call; the shim's RequestEvent does not.
RespondWithAccepted(kind, n) ==
  IF kind \in {"FetchEvent", "DeployWorker.RequestEvent"} THEN n = 0 ELSE TRUE

\* The script calls event.respondWith(res) for request id; a call that is not
\* accepted throws and changes nothing.
RespondWith(id) ==
  /\ ~terminated
  /\ reqEvent[id] # None
  /\ responded[id] < MaxRespond
  /\ IF RespondWithAccepted(reqEvent[id], responded[id])
     THEN /\ responded' = [responded EXCEPT ![id] = @ + 1]
          /\ awaiting' = [awaiting EXCEPT ![id] = @ + 1]
     ELSE UNCHANGED <<responded, awaiting>>
  /\ UNCHANGED <<globalListener, shimPhase, requestStream, reqEvent, shimUrl, sent>>
  /\ UNCHANGED <<hostVars, runVars, chanVars, bodyVars, signalVars>>
  /\ UNCHANGED sideVars

\* A script that answers every request once.
RespondOnce(id) == responded[id] = 0 /\ RespondWith(id)

\* #postResponse(id, res) after `await res`.  how = "response": res resolved to
\* a Response without a body (the script echoes the request's url in it);
\* "stream": to a Response with a ReadableStream body; "error": res rejected
\* with an Error; "thrown": res rejected with a value that is no Error, and the
\* assert of the catch block throws.
PostResponse(id, how) ==
  /\ ~terminated
  /\ awaiting[id] > 0
  /\ awaiting' = [awaiting EXCEPT ![id] = @ - 1]
  /\ IF how = "thrown"
     THEN UNCHANGED <<toHost, sent>>
     ELSE /\ toHost' = Append(toHost,
                 Msg(IF how = "error" THEN "respondError" ELSE "respond",
                     id, shimUrl[id], how = "stream"))
          /\ sent' = [sent EXCEPT ![id] = @ + 1]
  /\ thrown' = IF how \in {"error", "thrown"} THEN [thrown EXCEPT ![id] = how]
               ELSE thrown
  /\ respondBody' = IF how \in {"response", "stream"}
                    THEN [respondBody EXCEPT ![id] = IF how = "stream" THEN "true" ELSE "false"]
                    ELSE respondBody
  /\ bodyPump' = IF how = "stream"
                 THEN [bodyPump EXCEPT !["DeployWorkerHost.postResponse"][id] = "loop"]
                 ELSE bodyPump
  /\ UNCHANGED <<globalListener, shimPhase, requestStream, reqEvent, responded,
                 shimUrl, toWorker>>
  /\ UNCHANGED <<hostVars, runVars, fetchHandler, hostBodyVars, shimBodyVars, bodyLog,
                 signalVars>>
  /\ UNCHANGED <<hostSideVars, hdrCall, hdrSeen, deferredVars, lastInfo, envVars,
                 fileLog, lastStart, fetchCalls, emitted, logVars, denoVars>>

\* The fetchHandler calls evt.respondWith(res) on the controller's RequestEvent
\* of request id; a call that is not accepted throws and changes nothing.
HandlerRespondWith(id) ==
  /\ id \in pendingRequests
  /\ handlerResponded[id] < MaxRespond
  /\ handlerResponded' =
       IF RespondWithAccepted("DeployWorker.RequestEvent", handlerResponded[id])
       THEN [handlerResponded EXCEPT ![id] = @ + 1]
       ELSE handlerResponded
  /\ UNCHANGED <<hostVars, runVars, shimVars, chanVars, bodyVars, signalVars, thrown,
                 errorEvents, warnings, foreign, responseBodyVars, eventVars, pureVars,
                 emitted,
                 logVars, denoVars>>

\* The fetchHandler, running for request id, reads evt.request: the getter
\* builds the Request from #init, and #parseInit makes the body stream, whose
\* start callback sets #bodyController, when init.body.type is "stream".
HandlerReadRequest(id) ==
  /\ handlerPc[id] = "running"
  /\ id \notin eventRequest
  /\ eventRequest' = eventRequest \cup {id}
  /\ eventBody' = IF eventInit[id] = "stream" THEN eventBody \cup {id} ELSE eventBody
  /\ UNCHANGED <<handlerStyle, handlerPc, eventInit, hostMissed, eventChunks>>
  /\ UNCHANGED <<hostVars, runVars, shimVars, chanVars, bodyVars, signalVars, thrown,
                 errorEvents, warnings, foreign, handlerResponded, responseBodyVars,
                 pureVars, emitted, logVars, denoVars>>

\* The running fetchHandler does `await evt.respondWith(res)`: respondWith()
\* stores the response and returns #responded.promise, which nothing settles.
HandlerAwaitRespondWith(id) ==
  /\ handlerPc[id] = "running"
  /\ handlerResponded[id] = 0
  /\ handlerResponded' = [handlerResponded EXCEPT ![id] = 1]
  /\ handlerPc' = [handlerPc EXCEPT ![id] = "awaitRespond"]
  /\ UNCHANGED <<handlerStyle, eventInit, eventRequest, eventBody, hostMissed, eventChunks>>
  /\ UNCHANGED <<hostVars, runVars, shimVars, chanVars, bodyVars, signalVars, thrown,
                 errorEvents, warnings, foreign, responseBodyVars, pureVars, emitted,
                 logVars, denoVars>>

\* The running fetchHandler returns, having awaited no respondWith(): #handleFetch
\* goes on to `await requestEvent.finalize()`, which asserts #request and then
\* awaits `this.#response ?? fetch(this.#request)`.
HandlerReturn(id) ==
  /\ handlerPc[id] = "running"
  /\ IF id \in eventRequest
     THEN /\ handlerPc' = [handlerPc EXCEPT ![id] = "returned"]
          /\ bodyPump' = [bodyPump EXCEPT !["RequestEvent.finalize"][id] = "await"]
     ELSE /\ handlerPc' = [handlerPc EXCEPT ![id] = "assert"]
          /\ UNCHANGED bodyPump
  /\ UNCHANGED <<handlerStyle, eventInit, eventRequest, eventBody, hostMissed, eventChunks>>
  /\ UNCHANGED <<hostVars, runVars, shimVars, chanVars, fetchHandler, hostBodyVars,
                 shimBodyVars, bodyLog, signalVars, thrown, errorEvents, warnings,
                 foreign, handlerResponded, responseBodyVars, pureVars, emitted, logVars,
                 denoVars>>

\* ------------------------------------------------------ streamed bodies
\* One turn of `for await (const chunk of body)`: the stream yields a chunk,
\* ends, or fails.
StreamEvents == {"chunk", "end", "fail"}

\* The body messages a loop posts for the stream event ev: the catch block posts
\* bodyError, and the statement after the try posts bodyClose.
BodyPosts(ev) ==
  CASE ev = "chunk" -> << "bodyChunk" >>
    [] ev = "end" -> << "bodyClose" >>
    [] ev = "fail" -> << "bodyError", "bodyClose" >>

\* DeployWorker.#streamBody: every post is guarded by the state; a chunk read in
\* a state that is neither running nor stopped closes the body and returns.
GuardedBodyPosts(ev, s) ==
  IF Accepting(s) THEN BodyPosts(ev)
  ELSE IF ev = "chunk" THEN << "bodyClose" >> ELSE << >>

\* The n-th chunk the body stream of id yields.
Chunk(id, n) == 10 * id + n

\* What the n-th chunk of the body of subType of exchange id holds: the chunks
\* of a request body differ from those of a response body.
Payload(subType, id, n) ==
  IF subType = "response" THEN Chunk(id, n) ELSE 0 - Chunk(id, n)

\* The messages of one turn of a loop that has posted n chunks so far: a
\* bodyChunk message carries the chunk.
BodyMsgs(posts, id, subType, n) ==
  [i \in 1..Len(posts) |->
     [Msg(posts[i], id, subType, FALSE) EXCEPT
        !.chunk = IF posts[i] = "bodyChunk" THEN Payload(subType, id, n + 1) ELSE 0]]

\* The loop of emitter e for id takes a turn; the stream yields at most max chunks.
TurnUpTo(max, e, id, ev, posts) ==
  /\ bodyPump[e][id] = "loop"
  /\ ev = "chunk" => Len(bodyLog[e][id]) < max
  /\ bodyPump' = [bodyPump EXCEPT ![e][id] =
                    IF posts = << "bodyChunk" >> THEN "loop" ELSE "done"]

Turn(e, id, ev, posts) == TurnUpTo(MaxChunks, e, id, ev, posts)

\* DeployWorker.#streamBody(id, body): the request body of a fetch().
HostStreamBody(id, ev) ==
  LET e == "DeployWorker.streamBody"
      posts == IF terminated THEN << >> ELSE GuardedBodyPosts(ev, state)
  IN
  /\ Turn(e, id, ev, GuardedBodyPosts(ev, state))
  /\ toWorker' = toWorker \o BodyMsgs(posts, id, "request", Len(bodyLog[e][id]))
  /\ bodyLog' = [bodyLog EXCEPT ![e][id] = @ \o posts]
  /\ UNCHANGED <<hostVars, runVars, shimVars, toHost, fetchHandler, hostBodyVars,
                 shimBodyVars, signalVars>>
  /\ UNCHANGED sideVars

\* #postResponse(id, res): the body of the script's response, a stream of at
\* most max chunks.
PostResponseChunks(max, id, ev) ==
  LET e == "DeployWorkerHost.postResponse" IN
  /\ ~terminated
  /\ TurnUpTo(max, e, id, ev, BodyPosts(ev))
  /\ toHost' = toHost \o BodyMsgs(BodyPosts(ev), id, "response", Len(bodyLog[e][id]))
  /\ bodyLog' = [bodyLog EXCEPT ![e][id] = @ \o BodyPosts(ev)]
  /\ UNCHANGED <<hostVars, runVars, shimVars, toWorker, fetchHandler, hostBodyVars,
                 shimBodyVars, signalVars>>
  /\ UNCHANGED sideVars

PostResponseBody(id, ev) == PostResponseChunks(MaxChunks, id, ev)

\* The script calls fetch(new Request(url, { body: stream })) while the
\* controller has a fetchHandler.
ScriptFetch ==
  /\ ~terminated
  /\ shimPhase = "loaded"
  /\ fetchHandler
  /\ shimFetchId <= MaxScriptFetch
  /\ shimFetchId' = shimFetchId + 1
  /\ shimPending' = shimPending \cup {shimFetchId}
  /\ toHost' = Append(toHost, FetchMsg(shimFetchId, "/a", TRUE, 0))
  /\ bodyPump' = [bodyPump EXCEPT !["DeployWorkerHost.streamBody"][shimFetchId] = "loop"]
  /\ UNCHANGED <<hostVars, runVars, shimVars, toWorker, fetchHandler, hostBodyVars,
                 shimAssert, shimBodyControllers, responseBodyControllers, shimChunks,
                 bodyLog, signalVars>>
  /\ UNCHANGED sideVars

\* What the script passes to fetch() as input: a string new URL() takes, a URL,
\* a Request, a string new URL() throws on (a relative one), or another value.
FetchInputs == {"string", "URL", "Request", "relative", "other"}

\* fetch() gets to #postMessage: `new URL(input)` did not throw and the
\* `throw new TypeError("Argument `input` is of an unsupported type.")` was not reached.
InputTaken(input) == input \in {"string", "URL", "Request"}

\* fetch(input) of the shim, whole, with no requestInit and no body: without a
\* fetch handler the call goes to the runtime's fetch; with one, the id is
\* taken and the Deferred stored before the input is looked at.
UserFetch(input) ==
  /\ ~terminated
  /\ shimPhase = "loaded"
  /\ Len(fetchCalls) < MaxUserFetch
  /\ IF ~fetchHandler
     THEN /\ fetchCalls' = Append(fetchCalls,
                 [input |-> input, handler |-> FALSE, id |-> 0, posted |-> FALSE])
          /\ UNCHANGED <<shimFetchId, shimPending, toHost>>
     ELSE /\ shimFetchId' = shimFetchId + 1
          /\ shimPending' = shimPending \cup {shimFetchId}
          /\ toHost' = IF InputTaken(input)
                       THEN Append(toHost, FetchMsg(shimFetchId, "/a", FALSE, 0))
                       ELSE toHost
          /\ fetchCalls' = Append(fetchCalls,
                 [input |-> input, handler |-> TRUE, id |-> shimFetchId,
                  posted |-> InputTaken(input)])
  /\ UNCHANGED <<hostVars, runVars, shimVars, toWorker, fetchHandler, hostBodyVars,
                 shimAssert, shimBodyControllers, responseBodyControllers, shimChunks,
                 pumpVars, signalVars>>
  /\ UNCHANGED <<thrown, hostSideVars, hdrCall, hdrSeen, deferredVars, lastInfo, envVars,
                 fileLog, lastStart, respondBody, emitted, logVars, denoVars>>

\* The shim's #streamBody(id, body): the request body of the script's fetch().
ShimStreamBody(id, ev) ==
  LET e == "DeployWorkerHost.streamBody" IN
  /\ ~terminated
  /\ Turn(e, id, ev, BodyPosts(ev))
  /\ toHost' = toHost \o BodyMsgs(BodyPosts(ev), id, "request", Len(bodyLog[e][id]))
  /\ bodyLog' = [bodyLog EXCEPT ![e][id] = @ \o BodyPosts(ev)]
  /\ UNCHANGED <<hostVars, runVars, shimVars, toWorker, fetchHandler, hostBodyVars,
                 shimBodyVars, signalVars>>
  /\ UNCHANGED sideVars

\* RequestEvent.finalize() after `await this.#response`: the handler's response
\* resolved to a Response with a stream body (how = "stream") or rejected with
\* an Error; after a rejection #handleFetch deletes the pending request.
Finalize(id, how) ==
  LET e == "RequestEvent.finalize" IN
  /\ bodyPump[e][id] = "await"
  /\ bodyPump' = [bodyPump EXCEPT ![e][id] = IF how = "stream" THEN "loop" ELSE "nobody"]
  /\ toWorker' = PostToWorker(toWorker,
                    Msg(IF how = "stream" THEN "respond" ELSE "respondError",
                        id, "/a", how = "stream"))
  /\ pendingRequests' = IF how = "stream" THEN pendingRequests
                        ELSE pendingRequests \ {id}
  /\ UNCHANGED <<hostVars, runVars, shimVars, toHost, fetchHandler, bodyControllers,
                 shimBodyVars, bodyLog, signalVars>>
  /\ UNCHANGED sideVars

\* RequestEvent.finalize(): the body of the handler's response; when the loop
\* is over #handleFetch deletes the pending request.
FinalizeBody(id, ev) ==
  LET e == "RequestEvent.finalize"
      posts == IF terminated THEN << >> ELSE BodyPosts(ev)
  IN
  /\ Turn(e, id, ev, BodyPosts(ev))
  /\ toWorker' = toWorker \o BodyMsgs(posts, id, "response", Len(bodyLog[e][id]))
  /\ bodyLog' = [bodyLog EXCEPT ![e][id] = @ \o posts]
  /\ pendingRequests' = IF ev = "chunk" THEN pendingRequests ELSE pendingRequests \ {id}
  /\ UNCHANGED <<hostVars, runVars, shimVars, toHost, fetchHandler, bodyControllers,
                 shimBodyVars, signalVars>>
  /\ UNCHANGED sideVars

\* ------------------------------------------------------ abort signals
\* The AbortSignal given with request r fires: the listener #watchSignal added
\* posts an abort message in state running or stopped.
FireSignal(r) ==
  /\ signalOf[r] # 0
  /\ r \notin fired
  /\ fired' = fired \cup {r}
  /\ toWorker' = IF Accepting(state)
                 THEN PostToWorker(toWorker, Msg("abort", signalOf[r], None, FALSE))
                 ELSE toWorker
  /\ UNCHANGED <<signalId, signalOf, shimSignalVars>>
  /\ UNCHANGED <<hostVars, runVars, shimVars, toHost, bodyVars>>
  /\ UNCHANGED sideVars

\* fetch(input, requestInit) as far as the headers go: init.headers is built and
\* sent, and the shim's #parseInit builds the Request the handler sees from it.
FetchHeaders ==
  /\ FetchGate(state) = "sent"
  /\ hdrCall = NoCall
  /\ \E c \in Calls :
       /\ hdrCall' = c
       /\ hdrSeen' = Headers(InitHeaders(c))
  /\ UNCHANGED <<hostVars, runVars, shimVars, chanVars, bodyVars, signalVars, thrown,
                 hostSideVars, emitted, logVars, denoVars, deferredVars, callVars>>

\* ------------------------------------------------------ logs
\* The handler of request id calls console.log (error = FALSE) or console.error:
\* the console hands the line to #print, which posts a log message.  The line
\* is numbered; `before` tells that the handler has not called respondWith yet.
ScriptLog(id, error) ==
  /\ ~terminated
  /\ reqEvent[id] # None
  /\ Len(emitted) < MaxLogs
  /\ emitted' = Append(emitted, [id |-> id, n |-> Len(emitted) + 1, error |-> error,
                                 before |-> responded[id] = 0])
  /\ toHost' = Append(toHost, Msg("log", id, Len(emitted) + 1, error))
  /\ UNCHANGED <<hostVars, runVars, shimVars, toWorker, bodyVars, signalVars, thrown,
                 hostSideVars, pureVars, logVars, denoVars>>

\* One step of `for await (const line of worker.logs)`: the consumer takes the
\* next line, or ends when the stream is closed and empty; it waits otherwise.
ReadLog ==
  /\ ~logsDone
  /\ IF read < Len(logs)
     THEN read' = read + 1 /\ UNCHANGED logsDone
     ELSE logsState = "closed" /\ logsDone' = TRUE /\ UNCHANGED read
  /\ UNCHANGED <<hostVars, runVars, shimVars, chanVars, bodyVars, signalVars, thrown,
                 hostSideVars, pureVars, emitted, logs, logsState, denoVars>>

\* ------------------------------------------------------ Deferred
\* const d = new Deferred(strict)
DeferredNew(strict) ==
  /\ deferred = NoDeferred
  /\ deferred' = NewDeferred(strict)
  /\ UNCHANGED settles
  /\ UNCHANGED <<hostVars, runVars, shimVars, chanVars, bodyVars, signalVars, thrown,
                 hostSideVars, emitted, logVars, denoVars, hdrCall, hdrSeen, callVars>>

\* d.resolve(v) or d.reject(v)
DeferredSettle(op, v) ==
  /\ deferred # NoDeferred
  /\ Len(settles) < MaxSettle
  /\ deferred' = IF Throws(deferred) THEN deferred ELSE Settled(deferred, op, v)
  /\ settles' = Append(settles, [op |-> op, val |-> v,
                                 res |-> IF Throws(deferred) THEN "TypeError" ELSE "returns"])
  /\ UNCHANGED <<hostVars, runVars, shimVars, chanVars, bodyVars, signalVars, thrown,
                 hostSideVars, emitted, logVars, denoVars, hdrCall, hdrSeen, callVars>>

\* ------------------------------------------------------ unhandled messages
\* The peer of `side` posts a message of a type `side` has no case for: the
\* shim posts readFile and abort messages, which this controller does not
\* handle; a peer of another version posts types unknown to this one.
Foreign(side, type) ==
  /\ ~terminated
  /\ foreign < MaxForeign
  /\ foreign' = foreign + 1
  /\ IF side = "host"
     THEN /\ type \notin HostTypes
          /\ toHost' = Append(toHost, Msg(type, 1, None, FALSE))
          /\ UNCHANGED toWorker
     ELSE /\ type \notin ShimTypes
          /\ toWorker' = Append(toWorker, Msg(type, 1, None, FALSE))
          /\ UNCHANGED toHost
  /\ UNCHANGED <<hostVars, runVars, shimVars, bodyVars, signalVars, thrown,
                 errorEvents, warnings, handlerResponded, responseBodyVars, eventVars,
                 pureVars,
                 emitted, logVars, denoVars>>

\* ------------------------------------------------------ worker errors
\* The worker raises an error event (an uncaught error of the script):
\* #handleError(evt) logs it.
HandleError ==
  /\ ~terminated
  /\ errorEvents < MaxErrors
  /\ errorEvents' = errorEvents + 1
  /\ UNCHANGED <<warnings, foreign, handlerResponded, responseBodyVars, eventVars>>
  /\ UNCHANGED <<hostVars, runVars, shimVars, chanVars, bodyVars, signalVars, thrown,
                 pureVars, emitted, logVars, denoVars>>

\* ------------------------------------------------------ info()
\* info(): the counters of the controller.
InfoResult == [fetchCount |-> fetchId, pendingFetches |-> Cardinality(pendingFetches)]

\* A caller calls info() and gets its result.
Info ==
  /\ lastInfo' = InfoResult
  /\ UNCHANGED <<hostVars, runVars, shimVars, chanVars, bodyVars, signalVars, thrown,
                 hostSideVars, emitted, logVars, denoVars, hdrCall, hdrSeen, deferredVars,
                 envVars, fileLog, lastStart, respondBody, fetchCalls>>

\* ------------------------------------------------------ Deno.env
\* The script calls Deno.env.get(k), .set(k, v), .delete(k) or .toObject(); set
\* and delete throw before they touch #env.
EnvCall(op, k) ==
  /\ ~terminated
  /\ shimPhase = "loaded"
  /\ Len(envCalls) < MaxEnvCalls
  /\ envCalls' = Append(envCalls, [op |-> op, key |-> k, res |-> EnvResult(shimEnv, op, k)])
  /\ UNCHANGED <<envOption, shimEnv>>
  /\ UNCHANGED <<hostVars, runVars, shimVars, chanVars, bodyVars, signalVars, thrown,
                 hostSideVars, emitted, logVars, denoVars, hdrCall, hdrSeen, deferredVars,
                 lastInfo, fileLog, lastStart, respondBody, fetchCalls>>

\* ------------------------------------------------------ fileFetchHandler
\* The controller calls the handler with the RequestEvent of a request of the
\* script.
FileFetch(req) ==
  /\ Len(fileLog) < MaxFileRequests
  /\ fileLog' = Append(fileLog, [request |-> req, did |-> FileFetchHandler(req)])
  /\ UNCHANGED <<hostVars, runVars, shimVars, chanVars, bodyVars, signalVars, thrown,
                 hostSideVars, emitted, logVars, denoVars, hdrCall, hdrSeen, deferredVars,
                 lastInfo, envVars, lastStart, respondBody, fetchCalls>>

\* ------------------------------------------------------ specifications
\* A worker createWorker() has handed out: the init / ready / import / loaded
\* handshake is over and #ready is resolved; the state is s.
CreatedWith(s, style) ==
  /\ state = s
  /\ ready = "resolved"
  /\ fetchId = 1
  /\ pendingFetches = {}
  /\ outcome = [i \in Ids |-> NoOutcome]
  /\ settleOrder = << >>
  /\ asked = [i \in Ids |-> None]
  /\ lastFetch = NoFetch
  /\ toWorker = << >>
  /\ toHost = << >>
  /\ terminated = FALSE
  /\ waiters = << >>
  /\ jobs = << >>
  /\ closeCalled = FALSE
  /\ drained = {}
  /\ hostAssert = None
  /\ runPc = "idle"
  /\ cbOutcome = None
  /\ runResult = None
  /\ shimPhase = "loaded"
  /\ requestStream = << >>
  /\ reqEvent = [i \in Ids |-> None]
  /\ responded = [i \in Ids |-> 0]
  /\ awaiting = [i \in Ids |-> 0]
  /\ shimUrl = [i \in Ids |-> None]
  /\ sent = [i \in Ids |-> 0]
  /\ bodyControllers = {}
  /\ pendingRequests = {}
  /\ shimAssert = None
  /\ shimBodyControllers = {}
  /\ responseBodyControllers = {}
  /\ shimFetchId = 1
  /\ shimPending = {}
  /\ bodyPump = [e \in Emitters |-> [i \in Ids |-> "idle"]]
  /\ bodyLog = [e \in Emitters |-> [i \in Ids |-> << >>]]
  /\ signalId = 1
  /\ signalOf = [i \in Ids |-> 0]
  /\ fired = {}
  /\ signalControllers = {}
  /\ aborted = {}
  /\ thrown = [i \in Ids |-> None]
  /\ errorEvents = 0
  /\ warnings = << >>
  /\ foreign = 0
  /\ handlerResponded = [i \in Ids |-> 0]
  /\ handlerStyle = style
  /\ handlerPc = [i \in Ids |-> None]
  /\ eventInit = [i \in Ids |-> None]
  /\ eventRequest = {}
  /\ eventBody = {}
  /\ hostMissed = {}
  /\ eventChunks = [i \in Ids |-> << >>]
  /\ shimChunks = [sub \in {"request", "response"} |-> [i \in Ids |-> << >>]]
  /\ bodyChunks = [i \in Ids |-> << >>]
  /\ bodyEnd = [i \in Ids |-> None]
  /\ bodyStreams = [i \in Ids |-> 0]
  /\ callerStream = [i \in Ids |-> 0]
  /\ hdrCall = NoCall
  /\ hdrSeen = NoHeaders
  /\ deferred = NoDeferred
  /\ settles = << >>
  /\ emitted = << >>
  /\ logs = << >>
  /\ logsState = "readable"
  /\ read = 0
  /\ logsDone = FALSE
  /\ nextResults = [i \in Ids |-> << >>]
  /\ connClosed = {}
  /\ listens = << >>
  /\ fetchArrivals = << >>
  /\ acceptedConns = << >>
  /\ acceptPc = "idle"
  /\ connPc = [c \in Conns |-> "none"]
  /\ connFetch = [c \in Conns |-> {}]
  /\ serverLogged = {}
  /\ lastInfo = NoInfo
  /\ envOption = NoEnv
  /\ shimEnv = DefaultEnv
  /\ envCalls = << >>
  /\ fileLog = << >>
  /\ lastStart = NoStart
  /\ respondBody = [i \in Ids |-> None]
  /\ fetchCalls = << >>

\* The same, with a fetchHandler that reads evt.request, calls respondWith()
\* and returns at once.
Created(s) == CreatedWith(s, "responds")

InitCreated ==
  Created("stopped") /\ globalListener \in BOOLEAN /\ fetchHandler = FALSE

\* A worker as its constructor leaves it, constructed with any env option.
InitEnv == \E env \in EnvOptions : Constructed(env)

\* A created worker whose script registered a fetch listener.
InitEvent == Created("stopped") /\ globalListener = FALSE /\ fetchHandler = FALSE

\* A created worker after start(), the script with a fetch listener.
InitStarted == Created("running") /\ globalListener = FALSE /\ fetchHandler = FALSE

\* A created worker after start(), the script in either mode.
InitRunning ==
  Created("running") /\ globalListener \in BOOLEAN /\ fetchHandler = FALSE

\* A created worker after start(), constructed with a fetchHandler option, the
\* script with a fetch listener.
InitHandler == Created("running") /\ globalListener = FALSE /\ fetchHandler = TRUE

\* A created worker after start(), the script with a listener.
InitListener == Created("running") /\ globalListener = TRUE /\ fetchHandler = FALSE

\* The same, the script in either mode.
InitEvents == Created("running") /\ globalListener \in BOOLEAN /\ fetchHandler = TRUE


\* Start-up: a worker from its construction on, with fetch(), start(), stop() and
\* close() calls made at any time.
NextBoot ==
  \/ FetchObserved("/a")
  \/ Start
  \/ Stop
  \/ Close
  \/ ResumeJob
  \/ HostHandleMessage
  \/ ShimHandleMessage

SpecBoot == Init /\ [][NextBoot]_vars

\* The lifecycle: a created worker driven by fetch(), start(), stop() and close()
\* calls in any order, the script answering each request with a response or a
\* failure.
Next ==
  \/ Fetch("/a")
  \/ Start
  \/ Stop
  \/ Close
  \/ ResumeJob
  \/ HostHandleMessage
  \/ ShimHandleMessage
  \/ \E id \in Ids : RespondWith(id)
  \/ \E id \in Ids, how \in {"response", "error"} : PostResponse(id, how)

Spec == InitEvent /\ [][Next]_vars

\* The exchange: a running worker takes concurrent requests; the script, in
\* FetchEvent or in listener mode, answers each once, in any order, with a
\* response or a failure.
NextExchange ==
  \/ \E url \in Urls : Fetch(url)
  \/ HostHandleMessage
  \/ ShimHandleMessage
  \/ Accept
  \/ \E id \in Ids : RespondOnce(id)
  \/ \E id \in Ids, how \in {"response", "error"} : PostResponse(id, how)

SpecExchange == InitRunning /\ [][NextExchange]_vars

\* Responding: a running worker whose script may call respondWith() on an event
\* any number of times, with a response, an Error or a thrown non-Error.
NextRespond ==
  \/ Fetch("/a")
  \/ HostHandleMessage
  \/ ShimHandleMessage
  \/ Accept
  \/ \E id \in Ids : RespondWith(id)
  \/ \E id \in Ids, how \in {"response", "error", "thrown"} : PostResponse(id, how)

SpecRespond == InitRunning /\ [][NextRespond]_vars

\* Closing: a started worker with fetch(), stop() and close() calls in any
\* order, the script answering each request.
NextClose ==
  \/ Fetch("/a")
  \/ Stop
  \/ Close
  \/ ResumeJob
  \/ HostHandleMessage
  \/ ShimHandleMessage
  \/ \E id \in Ids : RespondOnce(id)
  \/ \E id \in Ids : PostResponse(id, "response")

SpecClose == InitStarted /\ [][NextClose]_vars

\* The microtask queue always drains: a continuation whose await is satisfied runs.
FairClose == SpecClose /\ WF_vars(ResumeJob)

\* run(): a created worker on which run(callback) is called, the callback and
\* other callers making fetch(), stop() and close() calls.
NextRun ==
  \/ Run
  \/ \E kind \in {"value", "throw"} : CallbackDone(kind)
  \/ Fetch("/a")
  \/ Stop
  \/ Close
  \/ ResumeJob
  \/ HostHandleMessage
  \/ ShimHandleMessage
  \/ \E id \in Ids : RespondOnce(id)
  \/ \E id \in Ids : PostResponse(id, "response")

SpecRun == InitEvent /\ [][NextRun]_vars

\* Streaming: a started worker with a fetchHandler; fetch() calls carry a stream
\* body, the script answers with a stream body and makes a fetch() of its own
\* that the fetchHandler answers; each stream yields chunks, ends or fails.
NextBody ==
  \/ FetchStream("/a")
  \/ HostHandleMessage
  \/ ShimHandleMessage
  \/ \E id \in Ids : RespondOnce(id)
  \/ \E id \in Ids : PostResponse(id, "stream")
  \/ \E id \in Ids, ev \in StreamEvents : HostStreamBody(id, ev)
  \/ \E id \in Ids, ev \in StreamEvents : PostResponseBody(id, ev)
  \/ ScriptFetch
  \/ \E id \in Ids, ev \in StreamEvents : ShimStreamBody(id, ev)
  \/ \E id \in Ids, how \in {"stream", "error"} : Finalize(id, how)
  \/ \E id \in Ids, ev \in StreamEvents : FinalizeBody(id, ev)

SpecBody == InitHandler /\ [][NextBody]_vars

\* Aborting: a started worker takes fetch() calls with and without a signal; the
\* signals fire at any time.
NextSignal ==
  \/ \E signal \in BOOLEAN : FetchSignal("/a", signal)
  \/ \E r \in Ids : FireSignal(r)
  \/ Close
  \/ ResumeJob
  \/ HostHandleMessage
  \/ ShimHandleMessage
  \/ \E id \in Ids : RespondOnce(id)
  \/ \E id \in Ids : PostResponse(id, "response")

SpecSignal == InitStarted /\ [][NextSignal]_vars

\* Uncaught errors: a worker from its construction on, with fetch(), start(),
\* stop() and close() calls made at any time, whose script raises an uncaught
\* error at any time.
NextError ==
  \/ NextBoot
  \/ HandleError

SpecError == Init /\ [][NextError]_vars

\* Headers: a started worker on which fetch() is called with any input and
\* requestInit.
NextHeaders == FetchHeaders

SpecHeaders == InitStarted /\ [][NextHeaders]_vars

\* Logging: a started worker whose script logs lines while it handles requests
\* and answers each request once.
NextLogs ==
  \/ Fetch("/a")
  \/ HostHandleMessage
  \/ ShimHandleMessage
  \/ \E id \in Ids, error \in BOOLEAN : ScriptLog(id, error)
  \/ \E id \in Ids : RespondOnce(id)
  \/ \E id \in Ids : PostResponse(id, "response")

SpecLogs == InitStarted /\ [][NextLogs]_vars

\* The end of the logs: the same, with a consumer that reads .logs and close()
\* called at any time.
NextLogsEnd ==
  \/ NextLogs
  \/ ReadLog
  \/ Close
  \/ ResumeJob

SpecLogsEnd == InitStarted /\ [][NextLogsEnd]_vars

\* A Deferred, strict or not, on which resolve() and reject() are called in any
\* order.
NextDeferred ==
  \/ \E strict \in BOOLEAN : DeferredNew(strict)
  \/ \E op \in {"resolved", "rejected"}, v \in Values : DeferredSettle(op, v)

SpecDeferred == InitStarted /\ [][NextDeferred]_vars

\* Unhandled messages: a started worker that takes requests while messages of
\* unhandled types arrive on both sides.
NextUnknown ==
  \/ Fetch("/a")
  \/ HostHandleMessage
  \/ ShimHandleMessage
  \/ \E id \in Ids : RespondOnce(id)
  \/ \E id \in Ids : PostResponse(id, "response")
  \/ \E side \in {"host", "shim"}, type \in {"readFile", "abort", "unknown"} :
       Foreign(side, type)

SpecUnknown == InitStarted /\ [][NextUnknown]_vars

\* Event objects: a started worker with a fetchHandler; the script, in either
\* mode, calls respondWith() on its events any number of times and makes a
\* fetch() of its own, and the fetchHandler calls respondWith() on its event any
\* number of times.
NextEvents ==
  \/ Fetch("/a")
  \/ HostHandleMessage
  \/ ShimHandleMessage
  \/ Accept
  \/ \E id \in Ids : RespondWith(id)
  \/ \E id \in Ids : PostResponse(id, "response")
  \/ ScriptFetch
  \/ \E id \in Ids : HandlerRespondWith(id)
  \/ \E id \in Ids : Finalize(id, "error")

SpecEvents == InitEvents /\ [][NextEvents]_vars

\* Connections: a started worker whose script accepts connections and calls
\* nextRequest() on each, or iterates it, and answers each request once.
NextConn ==
  \/ Fetch("/a")
  \/ HostHandleMessage
  \/ ShimHandleMessage
  \/ Accept
  \/ \E id \in Ids : NextRequest(id)
  \/ \E id \in Ids : IterNext(id)
  \/ \E id \in Ids : RespondOnce(id)
  \/ \E id \in Ids : PostResponse(id, "response")

SpecConn == InitListener /\ [][NextConn]_vars

\* Listening: a started worker whose script calls Deno.listen() at any time,
\* accepts connections and answers each request once.
NextListen ==
  \/ Listen
  \/ Fetch("/a")
  \/ HostHandleMessage
  \/ ShimHandleMessage
  \/ Accept
  \/ \E id \in Ids : RespondOnce(id)
  \/ \E id \in Ids : PostResponse(id, "response")

SpecListen == InitStarted /\ [][NextListen]_vars

\* Failing handlers: a running worker whose script, in FetchEvent or in listener
\* mode, answers each request once with a promise that resolves to a response,
\* rejects with an Error or rejects with a thrown value that is no Error.
NextThrow ==
  \/ Fetch("/a")
  \/ HostHandleMessage
  \/ ShimHandleMessage
  \/ Accept
  \/ \E id \in Ids : RespondOnce(id)
  \/ \E id \in Ids, how \in {"response", "error", "thrown"} : PostResponse(id, how)

SpecThrow == InitRunning /\ [][NextThrow]_vars

\* The number of chunks the bodies of the script's responses have yielded.
RECURSIVE ChunksYielded(_)
ChunksYielded(n) ==
  IF n = 0 THEN 0
  ELSE ChunksYielded(n - 1) +
       Len(SelectSeq(bodyLog["DeployWorkerHost.postResponse"][n],
                     LAMBDA t : t = "bodyChunk"))

\* Response bodies: a started worker takes concurrent requests; the script
\* answers each once with a Response with a stream body, and each stream yields
\* chunks (at most MaxResponseChunks, and one more than that over all streams)
\* and ends.
NextStream ==
  \/ Fetch("/a")
  \/ HostHandleMessage
  \/ ShimHandleMessage
  \/ \E id \in Ids : RespondOnce(id)
  \/ \E id \in Ids : PostResponse(id, "stream")
  \/ \E id \in Ids, ev \in {"chunk", "end"} :
       /\ ev = "chunk" => ChunksYielded(MaxFetch) <= MaxResponseChunks
       /\ PostResponseChunks(MaxResponseChunks, id, ev)

SpecStream == InitStarted /\ [][NextStream]_vars

\* Counters: a started worker takes requests, the script answers each once with
\* a response or a failure, and info() is called at any time.
NextInfo ==
  \/ Fetch("/a")
  \/ HostHandleMessage
  \/ ShimHandleMessage
  \/ \E id \in Ids : RespondOnce(id)
  \/ \E id \in Ids, how \in {"response", "error"} : PostResponse(id, how)
  \/ Info

SpecInfo == InitStarted /\ [][NextInfo]_vars

\* The environment: a worker constructed with any env option goes through the
\* handshake, and its script calls Deno.env.
NextEnv ==
  \/ HostHandleMessage
  \/ ShimHandleMessage
  \/ \E op \in {"get", "set", "delete", "toObject"}, k \in EnvKeys : EnvCall(op, k)

SpecEnv == InitEnv /\ [][NextEnv]_vars

\* The file handler: fileFetchHandler is called with requests of any scheme
\* for paths of any kind.
NextFile == \E req \in FileRequests : FileFetch(req)

SpecFile == InitHandler /\ [][NextFile]_vars

\* Request bodies: a started worker takes fetch() calls with a stream body while
\* stop() and close() are called at any time; each stream yields chunks, ends or
\* fails, and the script answers each request once.
NextRequestBody ==
  \/ FetchStream("/a")
  \/ \E id \in Ids, ev \in StreamEvents : HostStreamBody(id, ev)
  \/ Stop
  \/ Close
  \/ ResumeJob
  \/ HostHandleMessage
  \/ ShimHandleMessage
  \/ \E id \in Ids : RespondOnce(id)
  \/ \E id \in Ids : PostResponse(id, "response")

SpecRequestBody == InitStarted /\ [][NextRequestBody]_vars

\* Responses: a started worker takes concurrent requests; the script answers
\* each once with a Response without a body, with a Response with a stream body
\* (the first MaxStreamFetch requests) or with a failure, and each stream yields
\* chunks, ends or fails.
NextResponse ==
  \/ Fetch("/a")
  \/ HostHandleMessage
  \/ ShimHandleMessage
  \/ \E id \in Ids : RespondOnce(id)
  \/ \E id \in Ids, how \in {"response", "stream", "error"} :
       /\ how = "stream" => id <= MaxStreamFetch
       /\ PostResponse(id, how)
  \/ \E id \in Ids, ev \in StreamEvents : PostResponseBody(id, ev)

SpecResponse == InitStarted /\ [][NextResponse]_vars

\* A created worker after start(), constructed with or without a fetchHandler
\* option, the script with a fetch listener.
InitUserFetch == Created("running") /\ globalListener = FALSE /\ fetchHandler \in BOOLEAN

\* The script's fetch(): the script calls fetch() with any input; the
\* controller's fetchHandler answers each request it is given with a Response
\* with a stream body or with a failure.
NextUserFetch ==
  \/ \E input \in FetchInputs : UserFetch(input)
  \/ HostHandleMessage
  \/ ShimHandleMessage
  \/ \E id \in Ids, how \in {"stream", "error"} : Finalize(id, how)
  \/ \E id \in Ids, ev \in StreamEvents : FinalizeBody(id, ev)

SpecUserFetch == InitUserFetch /\ [][NextUserFetch]_vars

\* Duplicates: a running worker whose script has a listener and may call
\* respondWith() on a request event more than once, with Responses with or
\* without a stream body.  A body loop started for an id while another one
\* runs is of a stream that yields nothing.
NextDuplicate ==
  \/ Fetch("/a")
  \/ HostHandleMessage
  \/ ShimHandleMessage
  \/ Accept
  \/ \E id \in Ids : RespondWith(id)
  \/ \E id \in Ids, how \in {"response", "stream"} : PostResponse(id, how)
  \/ \E id \in Ids, ev \in {"chunk", "end"} : PostResponseBody(id, ev)

SpecDuplicate == InitListener /\ [][NextDuplicate]_vars

\* A created worker after start(), constructed with a fetchHandler that may do
\* anything with the event it is given.
InitFreeHandler ==
  CreatedWith("running", "free") /\ globalListener = FALSE /\ fetchHandler = TRUE

\* The fetchHandler: the script calls fetch() with a stream body, which the
\* shim streams; the controller's handler may read evt.request, call
\* respondWith(), await what respondWith() returns, and return, in any order;
\* the response it gave, or the one of the network, resolves with a stream body
\* or rejects.
NextFreeHandler ==
  \/ ScriptFetch
  \/ \E id \in Ids, ev \in StreamEvents : ShimStreamBody(id, ev)
  \/ HostHandleMessage
  \/ ShimHandleMessage
  \/ \E id \in Ids : HandlerReadRequest(id)
  \/ \E id \in Ids : handlerPc[id] = "running" /\ HandlerRespondWith(id)
  \/ \E id \in Ids : HandlerAwaitRespondWith(id)
  \/ \E id \in Ids : HandlerReturn(id)
  \/ \E id \in Ids, how \in {"stream", "error"} : Finalize(id, how)
  \/ \E id \in Ids, ev \in StreamEvents : FinalizeBody(id, ev)

SpecFreeHandler == InitFreeHandler /\ [][NextFreeHandler]_vars

\* Every message is handled, and a response awaited by finalize() settles.
FairFreeHandler ==
  /\ SpecFreeHandler
  /\ WF_vars(HostHandleMessage)
  /\ WF_vars(ShimHandleMessage)
  /\ WF_vars(\E id \in Ids, how \in {"stream", "error"} : Finalize(id, how))
  /\ WF_vars(\E id \in Ids : FinalizeBody(id, "end"))

\* The id of the first exchange either side starts: `#fetchId = 1`.
FirstId == 1

\* Routing: the controller and the script each start their first exchange, with
\* a stream request body, and both are answered with a stream body, so that
\* four bodies of the same id stream at the same time; no stream fails, and a
\* body loop takes its turn when at most one message waits to be handled.
NextRouting ==
  \/ fetchId = FirstId /\ FetchStream("/a")
  \/ shimFetchId = FirstId /\ ScriptFetch
  \/ HostHandleMessage
  \/ ShimHandleMessage
  \/ \E id \in Ids : RespondOnce(id)
  \/ \E id \in Ids : PostResponse(id, "stream")
  \/ \E id \in Ids : Finalize(id, "stream")
  \/ \E id \in Ids, ev \in {"chunk", "end"} :
       Len(toHost) + Len(toWorker) <= 1 /\ HostStreamBody(id, ev)
  \/ \E id \in Ids, ev \in {"chunk", "end"} :
       Len(toHost) + Len(toWorker) <= 1 /\ PostResponseBody(id, ev)
  \/ \E id \in Ids, ev \in {"chunk", "end"} :
       Len(toHost) + Len(toWorker) <= 1 /\ ShimStreamBody(id, ev)
  \/ \E id \in Ids, ev \in {"chunk", "end"} :
       Len(toHost) + Len(toWorker) <= 1 /\ FinalizeBody(id, ev)

SpecRouting == InitHandler /\ [][NextRouting]_vars

\* Inputs: a started worker with fetch() calls, some with an input fetch()
\* does not support, and stop() and close() calls in any order, the script
\* answering each request.
NextInput ==
  \/ Fetch("/a")
  \/ FetchUnsupported
  \/ Stop
  \/ Close
  \/ ResumeJob
  \/ HostHandleMessage
  \/ ShimHandleMessage
  \/ \E id \in Ids : RespondOnce(id)
  \/ \E id \in Ids : PostResponse(id, "response")

SpecInput == InitStarted /\ [][NextInput]_vars

\* ------------------------------------------------------ controller: listen()
\* The end of an iteration of either loop of listen():
\* `if (worker.state !== "running") { return; }`
LoopCheck(pc) == IF state # "running" THEN "done" ELSE pc

\* What the state of the worker and of the script is to the loops of listen().
ServerRest ==
  <<thrown, hostSideVars, pureVars, emitted, logVars, nextResults, connClosed, listens,
    listenVars>>

\* listen(options) after `await this.start()`: the listener is bound and
\* accept() is called, which awaits listener.accept().
DeployWorkerListen ==
  /\ acceptPc = "idle"
  /\ state = "running"
  /\ acceptPc' = "accept"
  /\ UNCHANGED <<connPc, connFetch, serverLogged>>
  /\ UNCHANGED <<hostVars, runVars, shimVars, chanVars, bodyVars, signalVars, ServerRest>>

\* accept(): `await listener.accept()` resolves with a connection, for which
\* serve(conn) runs up to `await httpConn.nextRequest()`, or rejects, which is
\* logged; then the state is looked at.
AcceptResolves(ev) ==
  /\ acceptPc = "accept"
  /\ IF ev = "conn"
     THEN /\ \E c \in Conns : connPc[c] = "none"
          /\ LET c == CHOOSE k \in Conns :
                        connPc[k] = "none" /\ \A j \in Conns : connPc[j] = "none" => k <= j
             IN connPc' = [connPc EXCEPT ![c] = "nextRequest"]
          /\ UNCHANGED serverLogged
     ELSE /\ 0 \notin serverLogged
          /\ serverLogged' = serverLogged \cup {0}
          /\ UNCHANGED connPc
  /\ acceptPc' = LoopCheck("accept")
  /\ UNCHANGED connFetch
  /\ UNCHANGED <<hostVars, runVars, shimVars, chanVars, bodyVars, signalVars, ServerRest>>

\* serve(conn): `await httpConn.nextRequest()` resolves with a request event,
\* and worker.fetch(requestEvent.request) is called; resolves with null; or
\* rejects. What is thrown or rejected at once is caught and logged, and then
\* the state is looked at.
NextRequestResolves(c, ev) ==
  /\ connPc[c] = "nextRequest"
  /\ CASE ev = "request" ->
            /\ FetchBy("/a", FALSE, FALSE)
            /\ UNCHANGED lastFetch
            /\ IF FetchGate(state) = "sent"
               THEN /\ connPc' = [connPc EXCEPT ![c] = "fetch"]
                    /\ connFetch' = [connFetch EXCEPT ![c] = @ \cup {fetchId}]
                    /\ UNCHANGED serverLogged
               ELSE /\ connPc' = [connPc EXCEPT ![c] = LoopCheck("nextRequest")]
                    /\ serverLogged' = serverLogged \cup {c}
                    /\ UNCHANGED connFetch
       [] ev = "null" ->
            /\ connPc' = [connPc EXCEPT ![c] = "done"]
            /\ UNCHANGED <<connFetch, serverLogged>>
            /\ UNCHANGED <<hostVars, runVars, shimVars, chanVars, bodyVars, signalVars>>
       [] ev = "error" ->
            /\ c \notin serverLogged
            /\ connPc' = [connPc EXCEPT ![c] = LoopCheck("nextRequest")]
            /\ serverLogged' = serverLogged \cup {c}
            /\ UNCHANGED connFetch
            /\ UNCHANGED <<hostVars, runVars, shimVars, chanVars, bodyVars, signalVars>>
  /\ UNCHANGED <<acceptPc, ServerRest>>

\* The fetch() call serve(conn) is awaiting.
AwaitedFetch(c) == CHOOSE id \in connFetch[c] : \A k \in connFetch[c] : k <= id

\* serve(conn): `await worker.fetch(...)` settles: with a response, which goes
\* to requestEvent.respondWith(), or with a rejection, which is logged.
FetchSettled(c) ==
  /\ connPc[c] = "fetch"
  /\ outcome[AwaitedFetch(c)] # NoOutcome
  /\ IF outcome[AwaitedFetch(c)].kind = "resolved"
     THEN /\ connPc' = [connPc EXCEPT ![c] = "respondWith"]
          /\ UNCHANGED serverLogged
     ELSE /\ connPc' = [connPc EXCEPT ![c] = LoopCheck("nextRequest")]
          /\ serverLogged' = serverLogged \cup {c}
  /\ UNCHANGED <<acceptPc, connFetch>>
  /\ UNCHANGED <<hostVars, runVars, shimVars, chanVars, bodyVars, signalVars, ServerRest>>

\* serve(conn): `await requestEvent.respondWith(response)` is over, the
\* response written to the client (ok) or not, which is logged.
Responded(c, ok) ==
  /\ connPc[c] = "respondWith"
  /\ connPc' = [connPc EXCEPT ![c] = LoopCheck("nextRequest")]
  /\ serverLogged' = IF ok THEN serverLogged ELSE serverLogged \cup {c}
  /\ UNCHANGED <<acceptPc, connFetch>>
  /\ UNCHANGED <<hostVars, runVars, shimVars, chanVars, bodyVars, signalVars, ServerRest>>

\* listen(): a started worker listens; clients connect and send requests,
\* which the script answers; stop() and close() are called at any time.
NextServer ==
  \/ DeployWorkerListen
  \/ \E ev \in {"conn", "error"} : AcceptResolves(ev)
  \/ \E c \in Conns, ev \in {"request", "null", "error"} : NextRequestResolves(c, ev)
  \/ \E c \in Conns : FetchSettled(c)
  \/ \E c \in Conns, ok \in BOOLEAN : Responded(c, ok)
  \/ Stop
  \/ Close
  \/ ResumeJob
  \/ HostHandleMessage
  \/ ShimHandleMessage
  \/ \E id \in Ids : RespondOnce(id)
  \/ \E id \in Ids : PostResponse(id, "response")

SpecServer == InitStarted /\ [][NextServer]_vars

\* Every step of the controller, of the worker and of the loops is taken in
\* the end; no client has to connect or to send a request.
FairServer ==
  /\ SpecServer
  /\ WF_vars(ResumeJob)
  /\ WF_vars(HostHandleMessage)
  /\ WF_vars(ShimHandleMessage)
  /\ WF_vars(\E id \in Ids : RespondOnce(id))
  /\ WF_vars(\E id \in Ids : PostResponse(id, "response"))
  /\ WF_vars(\E c \in Conns : FetchSettled(c))
  /\ WF_vars(\E c \in Conns : Responded(c, TRUE))

\* ---------------------------------------------------------------- claims

\* C1: for every request id, at most one respond / respondError message is sent
\* back, in FetchEvent mode and in listener mode alike; receiving it deletes the
\* id from the pending-fetch table, and the controller never receives a response
\* for an id that is not pending.
C1_OneResponsePerId ==
  /\ \A id \in Ids : sent[id] <= 1
  /\ \A id \in Ids : outcome[id] # NoOutcome => id \notin pendingFetches
  /\ hostAssert \notin {"respond", "respondError"}

\* C2: the body messages posted for one (id, subType) are bodyChunk messages
\* followed by exactly one terminal message, bodyClose or bodyError: no message
\* follows a terminal, and a loop that is over has posted one.
C2_BodySequence ==
  \A e \in Emitters, id \in Ids :
    LET log == bodyLog[e][id] IN
    /\ \A i \in 1..Len(log) : log[i] \in Terminals => i = Len(log)
    /\ bodyPump[e][id] = "done" => log # << >> /\ log[Len(log)] \in Terminals

\* The transitions of the lifecycle table.
LifecycleTable ==
  {<<"loading", "stopped">>, <<"stopped", "running">>, <<"running", "stopped">>,
   <<"running", "closing">>, <<"stopped", "closing">>, <<"closing", "closed">>}
   \cup {<<s, "errored">> : s \in {"loading", "stopped", "running", "closing", "closed"}}

\* C3: every change of DeployWorker.#state is a transition of the lifecycle table.
C3_LifecycleTable == [][state' # state => <<state, state'>> \in LifecycleTable]_vars

\* C4: fetch() in state stopped is rejected with 'The worker is currently
\* stopped.', in state closing or closed with 'The worker is closing or closed.',
\* throws in state loading or errored, and in none of these posts a message.
C4_FetchGate ==
  lastFetch # NoFetch =>
    /\ lastFetch.st = "stopped" =>
         lastFetch.res = "rejected: currently stopped" /\ ~lastFetch.posted
    /\ lastFetch.st \in {"closing", "closed"} =>
         lastFetch.res = "rejected: closing or closed" /\ ~lastFetch.posted
    /\ lastFetch.st \in {"loading", "errored"} =>
         lastFetch.res = "throws" /\ ~lastFetch.posted

C4_Witness ==
  /\ lastFetch # NoFetch
  /\ lastFetch.st = "closing"
  /\ lastFetch.res = "rejected: closing or closed"
  /\ pendingFetches # {}

\* C5: close() sets the state to closing at once, terminates the worker and sets
\* closed only after every fetch pending at the call has settled, and every
\* fetch() call made once close() has been called is rejected without being sent.
C5_CloseDrains ==
  [][/\ (closeCalled' /\ ~closeCalled) => state' = "closing"
     /\ (terminated' /\ ~terminated) => Head(jobs).snap \cap pendingFetches = {}
     /\ closeCalled => fetchId' = fetchId /\ Len(toWorker') <= Len(toWorker)]_vars

\* C6: when stop() sets the state to stopped, the pending-fetch table is empty.
C6_StopDrains ==
  [][(state' = "stopped" /\ state # "stopped" /\ state # "loading")
       => pendingFetches = {}]_vars

\* A close() call is suspended at its await or about to continue.
ClosePending ==
  \/ \E i \in 1..Len(waiters) : waiters[i].op = "close"
  \/ \E i \in 1..Len(jobs) : jobs[i].op = "close"

C9_OwnResponse ==
  \A id \in Ids : outcome[id] # NoOutcome => outcome[id].val = asked[id]

C9_Witness ==
  /\ MaxFetch >= 2
  /\ Len(settleOrder) >= 2
  /\ settleOrder[1] > settleOrder[2]
  /\ asked[1] # asked[2]

\* The request whose signal #watchSignal gave this signal id.
RequestOf(signal) == CHOOSE r \in Ids : signalOf[r] = signal

\* The shim handles an abort message.
AbortHandled ==
  /\ toWorker # << >>
  /\ Head(toWorker).type = "abort"
  /\ toWorker' = Tail(toWorker)

\* C10: when the shim handles the abort message of the signal given with
\* request r, it aborts the AbortController it created for request r, and no
\* other.
C10_AbortOwnController ==
  [][AbortHandled => aborted' = aborted \cup {RequestOf(Head(toWorker).id)}]_vars

\* C11: whenever the promise passed to respondWith rejects, with any thrown
\* value, the shim sends respondError for that request id, and the fetch() future
\* of that id, once settled, is rejected with the name and message of what was
\* thrown.
C11_ThrowRejects ==
  \A id \in Ids :
    thrown[id] # None =>
      /\ sent[id] = 1
      /\ id \notin pendingFetches =>
            outcome[id] = [kind |-> "rejected", val |-> asked[id]]

\* C12: an error event on the worker moves DeployWorker.state to errored from
\* any state, and errored is terminal: no later step changes the state.
C12_ErrorTerminal ==
  [][/\ errorEvents' # errorEvents => state' = "errored"
     /\ state = "errored" => state' = "errored"]_vars

\* The value of header k in the headers call c carries, None when it has none.
Supplied(c, k) == Headers(CallerHeaders(c))[k]

\* C13 as claimed: the handler sees host: <configured host> and
\* x-forwarded-for: 127.0.0.1 for every request that carries no such header,
\* and the caller's value otherwise.
C13_DefaultHeaders ==
  hdrCall # NoCall =>
    \A k \in Keys :
      hdrSeen[k] = IF Supplied(hdrCall, k) # None THEN Supplied(hdrCall, k)
                   ELSE IF k = "host" THEN ConfiguredHost ELSE "127.0.0.1"

\* C13 amended: the handler sees x-forwarded-for: 127.0.0.1 and, as host, the
\* host of the request's url (the configured host for a string path, the url's
\* own host for an absolute URL or a Request) for every request that carries no
\* such header, and the caller's value otherwise.
C13_HeadersOfUrl ==
  hdrCall # NoCall =>
    \A k \in Keys :
      hdrSeen[k] = IF Supplied(hdrCall, k) # None THEN Supplied(hdrCall, k)
                   ELSE IF k = "host" THEN hdrCall.host ELSE "127.0.0.1"

C13_Witness ==
  /\ hdrCall.kind = "request"
  /\ hdrCall.host # ConfiguredHost
  /\ Supplied(hdrCall, "host") = None
  /\ Supplied(hdrCall, "x-forwarded-for") = "10.0.0.1"
  /\ hdrSeen = [k \in Keys |-> IF k = "host" THEN hdrCall.host
                                ELSE Supplied(hdrCall, "x-forwarded-for")]

\* C14: log lines are enqueued on the logs stream in the order the worker
\* emitted them, and every line the handler of a request logs before it calls
\* respondWith is on the stream when the fetch() future of that request settles.
C14_LogOrder ==
  /\ Len(logs) <= Len(emitted)
  /\ \A i \in 1..Len(logs) :
       logs[i] = <<IF emitted[i].error THEN "error: " ELSE "", emitted[i].n>>
  /\ \A i \in 1..Len(emitted) :
       (emitted[i].before /\ outcome[emitted[i].id] # NoOutcome) => i <= Len(logs)

C14_Witness ==
  /\ Len(logs) = 2
  /\ emitted[1].before /\ emitted[2].before
  /\ emitted[1].error # emitted[2].error
  /\ outcome[emitted[2].id] # NoOutcome

\* C15: the logs stream stays open while the worker is not closed, and once
\* close() has completed the stream is closed, so that a consumer iterating
\* DeployWorker.logs reaches the end of the sequence.
C15_LogsEnd ==
  /\ state # "closed" => logsState = "readable" /\ ~logsDone
  /\ (state = "closed" /\ terminated) => logsState = "closed"

\* C16: a Deferred starts pending; the first resolve() or reject() moves its
\* state to resolved or rejected and the state never changes afterwards; in
\* non-strict mode later calls are no-ops, in strict mode they throw TypeError
\* and leave the state unchanged.
C16_DeferredOnce ==
  deferred # NoDeferred =>
    IF settles = << >>
    THEN deferred.state = "pending" /\ deferred.promise = NoOutcome
    ELSE /\ deferred.state = settles[1].op
         /\ deferred.promise = [kind |-> settles[1].op, val |-> settles[1].val]
         /\ settles[1].res = "returns"
         /\ \A i \in 2..Len(settles) :
              settles[i].res = IF deferred.strict THEN "TypeError" ELSE "returns"

C16_Witness ==
  /\ Len(settles) >= 2
  /\ ~deferred.strict
  /\ settles[1].op = "resolved" /\ settles[2].op = "rejected"
  /\ deferred.state = "resolved"

\* The controller handles a message of a type it has no case for.
HostUnhandled ==
  /\ toHost # << >>
  /\ Head(toHost).type \notin HostTypes
  /\ Len(toHost') = Len(toHost) - 1

\* The shim handles a message of a type it has no case for.
ShimUnhandled ==
  /\ toWorker # << >>
  /\ Head(toWorker).type \notin ShimTypes
  /\ toWorker' = Tail(toWorker)

\* C17: on both sides, a message of a type the receiver does not handle is
\* logged and otherwise ignored: the handler does not throw and the lifecycle
\* state, the pending tables and the stream controllers do not change.
C17_UnknownIgnored ==
  [][/\ HostUnhandled =>
          /\ warnings' = Append(warnings, Head(toHost).type)
          /\ UNCHANGED <<state, pendingFetches, outcome, bodyControllers,
                         pendingRequests, hostAssert, logs>>
     /\ ShimUnhandled =>
          /\ Len(toHost') = Len(toHost) + 1
          /\ toHost'[Len(toHost')].type = "log"
          /\ UNCHANGED <<state, shimPending, shimBodyControllers,
                         responseBodyControllers, signalControllers, requestStream,
                         reqEvent, shimAssert>>]_vars

C17_Witness ==
  /\ warnings = << "readFile" >>
  /\ Len(emitted) = 1
  /\ logs = << <<"error: ", 1>> >>
  /\ settleOrder # << >>
  /\ hostAssert = None /\ shimAssert = None

\* C18: on the shim's FetchEvent, the shim's listener-mode RequestEvent and the
\* controller's RequestEvent alike, the first respondWith call is accepted and
\* every later call throws TypeError without sending any further message.
C18_RespondWithOnce ==
  \A id \in Ids :
    /\ responded[id] <= 1
    /\ sent[id] <= 1
    /\ handlerResponded[id] <= 1

\* C19: a connection returned by accept() yields exactly one request: the first
\* nextRequest() call (or iteration step) returns the request event and every
\* later nextRequest() call returns null.
C19_OneRequestPerConn ==
  \A id \in Ids :
    \A i \in 1..Len(nextResults[id]) :
      nextResults[id][i] = IF i = 1 THEN "event" ELSE "null"

\* C20: at most one emulated listener exists per runtime instance: the first
\* Deno.listen() returns a listener, every later call throws TypeError, and the
\* listener the first call bound stays in place.
C20_OneListener ==
  /\ \A i \in 1..Len(listens) : listens[i] = IF i = 1 THEN "listener" ELSE "TypeError"
  /\ listens # << >> => globalListener

C20_Witness ==
  /\ Len(listens) = MaxListen
  /\ globalListener
  /\ \E id \in Ids : reqEvent[id] = "RequestEvent" /\ outcome[id] # NoOutcome

\* The ids of the fetch messages that arrived while a listener was bound, in
\* the order they arrived.
ArrivedBound ==
  LET bound == SelectSeq(fetchArrivals, LAMBDA a : a.listener)
  IN [i \in 1..Len(bound) |-> bound[i].id]

Produced(id) ==
  LET posted == SelectSeq(bodyLog["DeployWorkerHost.postResponse"][id],
                          LAMBDA t : t = "bodyChunk")
  IN [k \in 1..Len(posted) |-> Chunk(id, k)]

\* A response-body message of request id is on its way to the controller.
BodyInFlight(id) ==
  \E i \in 1..Len(toHost) :
    /\ toHost[i].id = id
    /\ toHost[i].type \in {"respond", "bodyChunk", "bodyClose", "bodyError"}

\* C22: the body stream of the Response fetch() returned for a request delivers
\* the chunks the script's body yielded, in their order, and closes normally
\* once all of them are delivered, whatever the number of chunks and whatever
\* other responses are streaming at the same time.
C22_BodyIntegrity ==
  \A id \in Ids :
    /\ Len(bodyChunks[id]) <= Len(Produced(id))
    /\ bodyChunks[id] = SubSeq(Produced(id), 1, Len(bodyChunks[id]))
    /\ bodyEnd[id] # "errored"
    /\ bodyEnd[id] = "closed" =>
         /\ bodyChunks[id] = Produced(id)
         /\ bodyPump["DeployWorkerHost.postResponse"][id] = "done"
    /\ (bodyPump["DeployWorkerHost.postResponse"][id] = "done" /\ ~BodyInFlight(id)) =>
         bodyEnd[id] = "closed"
    /\ hostAssert = None

C22_Witness ==
  /\ bodyChunks[1] = << Chunk(1, 1) >> /\ bodyEnd[1] = None
  /\ bodyChunks[2] = << Chunk(2, 1), Chunk(2, 2) >> /\ bodyEnd[2] = "closed"
  /\ outcome[1].kind = "resolved" /\ outcome[2].kind = "resolved"

\* The controller handles a message of type t.
HostHandles(t) ==
  /\ toHost # << >>
  /\ Head(toHost).type = t
  /\ ~terminated /\ jobs = << >>
  /\ Len(toHost') = Len(toHost) - 1

\* The shim handles a message of type t.
ShimHandles(t) ==
  /\ toWorker # << >>
  /\ Head(toWorker).type = t
  /\ ~terminated
  /\ toWorker' = Tail(toWorker)

\* A message of type t is posted on channel q in this step.
Posted(q, qNext, t) ==
  /\ qNext # << >>
  /\ qNext[Len(qNext)].type = t
  /\ Len(qNext) >= Len(q)
  /\ qNext # q

\* C23: the handshake is ordered init, ready, import, loaded: import is sent
\* only when the controller handles ready, loaded only when the shim has done
\* the import, the state leaves loading only when the controller handles loaded,
\* and DeployWorker.ready resolves only then, with the state stopped.
C23_Handshake ==
  [][/\ Posted(toWorker, toWorker', "import") => HostHandles("ready")
     /\ Posted(toHost, toHost', "ready") => ShimHandles("init")
     /\ Posted(toHost, toHost', "loaded") => ShimHandles("import")
     /\ (state = "loading" /\ state' # "loading") => HostHandles("loaded")
     /\ (ready = "pending" /\ ready' = "resolved") =>
          HostHandles("loaded") /\ state' = "stopped"]_vars

\* The fetches made of the worker so far, and those of them not yet answered.
FetchesMade == {i \in Ids : asked[i] # None}
Unanswered == {i \in FetchesMade : outcome[i] = NoOutcome}

\* C24: info() resolves with fetchCount, the number of fetches made of the
\* worker so far, and pendingFetches, the number of those not yet answered, and
\* changes no state of the controller.
C24_InfoCounts ==
  [][lastInfo' # lastInfo =>
       /\ lastInfo'.fetchCount = Cardinality(FetchesMade)
       /\ lastInfo'.pendingFetches = Cardinality(Unanswered)
       /\ UNCHANGED <<hostVars, hostBodyVars, hostSignalVars>>]_vars

\* {DENO_DEPLOYMENT_ID: '00000000'} overridden and extended by the env option.
LaunchEnv ==
  [k \in EnvKeys |->
     IF envOption[k] # None THEN envOption[k]
     ELSE IF k = "DENO_DEPLOYMENT_ID" THEN "00000000" ELSE None]

\* C25: once the script runs, Deno.env.toObject() is {DENO_DEPLOYMENT_ID:
\* '00000000'} overridden and extended by the env option, get(k) gives the value
\* toObject() has for k, and set and delete throw TypeError and leave the
\* environment as it is.
C25_EnvFixed ==
  /\ shimPhase = "loaded" => shimEnv = LaunchEnv
  /\ \A i \in 1..Len(envCalls) :
       LET c == envCalls[i] IN
       CASE c.op = "toObject" -> c.res.kind = "object" /\ c.res.obj = LaunchEnv
         [] c.op = "get" -> c.res.kind = "value" /\ c.res.val = LaunchEnv[c.key]
         [] OTHER -> c.res.kind = "TypeError"

C25_Witness ==
  /\ envOption["DENO_DEPLOYMENT_ID"] = "ffffffff" /\ envOption["A"] = "B"
  /\ Len(envCalls) = 2
  /\ envCalls[1].op = "set" /\ envCalls[1].key = "A"
  /\ envCalls[2].op = "toObject"
  /\ envCalls[2].res.obj["DENO_DEPLOYMENT_ID"] = "ffffffff"
  /\ envCalls[2].res.obj["A"] = "B"

\* C26: for a request with a file: url, fileFetchHandler responds with the file
\* contents and a content-type header when the path is a regular file, with
\* status 403 when the path exists and is not a file, and with status 404 when
\* the path does not exist; for any other scheme it does not call respondWith.
C26_FileFetchHandler ==
  \A i \in 1..Len(fileLog) :
    LET req == fileLog[i].request
        did == fileLog[i].did
    IN
    IF req.scheme = "file:"
    THEN /\ did.responded
         /\ req.kind = "file" =>
              /\ did.response.body = req.content
              /\ did.response.contentType # None
              /\ did.response.status = 200
         /\ req.kind = "directory" => did.response.status = 403
         /\ req.kind = "missing" => did.response.status = 404
    ELSE ~did.responded

C26_Witness ==
  /\ Len(fileLog) = 2
  /\ fileLog[1].request.scheme = "file:" /\ fileLog[1].request.kind = "missing"
  /\ fileLog[1].did.response.status = 404
  /\ fileLog[2].request.scheme = "file:" /\ fileLog[2].request.kind = "directory"
  /\ fileLog[2].did.response.status = 403

\* C27: start() continues only once the worker is ready; it moves a stopped
\* worker to running, leaves a running worker running, and in state closing or
\* closed rejects with TypeError and leaves the state as it is.
C27_Start ==
  lastStart # NoStart =>
    /\ lastStart.ready = "resolved"
    /\ lastStart.st = "stopped" =>
         lastStart.res = "resolved" /\ lastStart.after = "running"
    /\ lastStart.st = "running" =>
         lastStart.res = "resolved" /\ lastStart.after = "running"
    /\ lastStart.st \in {"closing", "closed"} =>
         lastStart.res = "rejected" /\ lastStart.after = lastStart.st

C27_Witness ==
  /\ lastStart.st = "running" /\ lastStart.after = "running"
  /\ lastStart.res = "resolved"
  /\ pendingFetches # {}

\* The messages #streamBody posts for the request body of id in this step.
StreamBodyPosts(id) ==
  LET log == bodyLog["DeployWorker.streamBody"][id]
      logNext == bodyLog'["DeployWorker.streamBody"][id]
  IN SubSeq(logNext, Len(log) + 1, Len(logNext))

\* #streamBody of id returns in this step.
StreamBodyReturns(id) ==
  /\ bodyPump["DeployWorker.streamBody"][id] = "loop"
  /\ bodyPump'["DeployWorker.streamBody"][id] = "done"

\* C28: the controller posts a bodyChunk of a request body only in state
\* running or stopped, and when its loop over the body is over (the stream
\* ended or failed, or the state has left running / stopped) and the worker is
\* not terminated, it has posted a terminal message for the id, which releases
\* the shim's request-body controller.
C28_RequestBodyReleased ==
  [][\A id \in Ids :
       /\ (\E i \in 1..Len(StreamBodyPosts(id)) : StreamBodyPosts(id)[i] = "bodyChunk")
            => Accepting(state)
       /\ (StreamBodyReturns(id) /\ ~terminated) =>
            \E i \in 1..Len(bodyLog'["DeployWorker.streamBody"][id]) :
               bodyLog'["DeployWorker.streamBody"][id][i] \in Terminals]_vars

\* The controller handles a terminal message of the response body of id.
HandlesTerminal(id) ==
  /\ \/ HostHandles("bodyClose")
     \/ HostHandles("bodyError")
  /\ Head(toHost).id = id
  /\ Head(toHost).val = "response"

\* C29: the controller registers a body controller for an id exactly when it
\* handles a respond message with hasBody true for that id; for a respond with
\* hasBody false none is registered and the shim posts no body message for the
\* id; a registered controller is removed when its terminal message is handled.
C29_LazyBodyController ==
  [][\A id \in Ids :
       /\ (id \in bodyControllers' /\ id \notin bodyControllers) <=>
            (/\ HostHandles("respond")
             /\ Head(toHost).id = id
             /\ Head(toHost).flag
             /\ id \notin bodyControllers)
       /\ (HostHandles("respond") /\ Head(toHost).id = id /\ ~Head(toHost).flag) =>
            id \notin bodyControllers'
       /\ respondBody'[id] = "false" =>
            bodyLog'["DeployWorkerHost.postResponse"][id] = << >>
       /\ (id \in bodyControllers /\ HandlesTerminal(id)) => id \notin bodyControllers'
       /\ (id \in bodyControllers /\ id \notin bodyControllers') => HandlesTerminal(id)]_vars

C29_Witness ==
  /\ respondBody[1] = "true" /\ respondBody[2] = "false"
  /\ outcome[1].kind = "resolved" /\ outcome[2].kind = "resolved"
  /\ bodyEnd[1] = "closed" /\ bodyControllers = {}
  /\ bodyChunks[1] # << >>

\* The step is a fetch() call of the script.
CallsFetch == Len(fetchCalls') = Len(fetchCalls) + 1

\* The fetch messages for id in queue q.
FetchMessages(q, id) == {i \in 1..Len(q) : q[i].type = "fetch" /\ q[i].id = id}

\* C30: a fetch() call of the script posts nothing and takes no id when init
\* declared no fetch handler; when it declared one the call takes a fresh id,
\* one above the id before it, posts exactly one fetch message with that id,
\* and the pending promise of an id is settled by the respond or respondError
\* message that carries the id.
C30_ScriptFetch ==
  [][/\ (CallsFetch /\ ~fetchHandler) =>
         /\ toHost' = toHost
         /\ shimFetchId' = shimFetchId
         /\ shimPending' = shimPending
     /\ (CallsFetch /\ fetchHandler) =>
         /\ shimFetchId' = shimFetchId + 1
         /\ shimFetchId \notin shimPending
         /\ shimPending' = shimPending \cup {shimFetchId}
         /\ toHost' = Append(toHost, FetchMsg(shimFetchId, "/a", FALSE, 0))
         /\ Cardinality(FetchMessages(toHost', shimFetchId)) = 1
     /\ \A id \in Ids :
          (id \in shimPending /\ id \notin shimPending') <=>
            (/\ id \in shimPending
             /\ \/ ShimHandles("respond")
                \/ ShimHandles("respondError")
             /\ Head(toWorker).id = id)]_vars

\* The exchange of id has settled at the controller: the caller has its
\* response or rejection, and the body of a response with one has ended.
ExchangeSettled(id) ==
  /\ outcome[id] # NoOutcome
  /\ callerStream[id] > 0 => bodyEnd[id] # None

\* The keys of the correlation tables of both sides for the exchanges the
\* controller starts.
TableKeys == pendingFetches \cup bodyControllers \cup shimBodyControllers

\* C31: once the response for an id has been delivered and its body terminal
\* message processed no correlation table holds an entry for the id, and no
\* entry is deleted or settled twice: a step that leaves the exchange settled
\* leaves no entry, and no step settles or removes an entry of a settled one.
C31_TablesCleared ==
  [][\A id \in Ids :
       /\ ExchangeSettled(id)' => id \notin TableKeys'
       /\ ExchangeSettled(id) =>
            /\ id \notin TableKeys
            /\ outcome'[id] = outcome[id]
            /\ Len(settleOrder') = Len(settleOrder) \/ settleOrder'[Len(settleOrder')] # id]_vars

\* C32: an abort message the shim handles after the exchange of its signal has
\* settled aborts no AbortController and changes no state of the shim, and an
\* abort message for an id with no registered controller is ignored without
\* error.
C32_LateAbortNoOp ==
  [][AbortHandled =>
       /\ outcome[RequestOf(Head(toWorker).id)] # NoOutcome =>
            UNCHANGED <<aborted, signalControllers, shimBodyVars, shimVars>>
       /\ Head(toWorker).id \notin signalControllers =>
            UNCHANGED <<aborted, signalControllers, shimBodyVars, shimVars>>]_vars

\* A message of type t that the receiving handler has no table entry for
\* finds: the handler's assert fails.
HostAsserts == hostAssert' = Head(toHost).type
ShimAsserts == shimAssert' = Head(toWorker).type

\* The RequestEvent method the controller calls for the message throws.
EventThrows ==
  [id |-> Head(toHost).id, type |-> Head(toHost).type, how |-> "error"] \in hostMissed'

\* The controller handles a body message of subType sub.
HostHandlesBody(sub) ==
  /\ HostHandles("bodyChunk") \/ HostHandles("bodyClose") \/ HostHandles("bodyError")
  /\ Head(toHost).val = sub

\* The shim handles a body message of subType sub.
ShimHandlesBody(sub) ==
  /\ ShimHandles("bodyChunk") \/ ShimHandles("bodyClose") \/ ShimHandles("bodyError")
  /\ Head(toWorker).val = sub

\* C33: a respond or respondError for an id that is not pending, and a body
\* message for an (id, subType) with no registered stream controller, make an
\* assert of the receiving message handler fail (or the method it calls
\* throw), on either side: none is ignored silently.
C33_ViolationsAssert ==
  [][/\ ((HostHandles("respond") \/ HostHandles("respondError"))
          /\ Head(toHost).id \notin pendingFetches) => HostAsserts
     /\ (HostHandlesBody("response") /\ Head(toHost).id \notin bodyControllers) =>
          HostAsserts
     /\ (HostHandlesBody("request") /\ Head(toHost).id \notin eventBody) =>
          (HostAsserts \/ EventThrows)
     /\ ((ShimHandles("respond") \/ ShimHandles("respondError"))
          /\ Head(toWorker).id \notin shimPending) => ShimAsserts
     /\ (ShimHandlesBody("response") /\ Head(toWorker).id \notin responseBodyControllers) =>
          ShimAsserts
     /\ (ShimHandlesBody("request") /\ Head(toWorker).id \notin shimBodyControllers) =>
          ShimAsserts]_vars

\* The chunks the loop of emitter e has posted for the body of subType sub of
\* exchange id.
ChunksOf(e, sub, id) ==
  LET posted == SelectSeq(bodyLog[e][id], LAMBDA t : t = "bodyChunk")
  IN [k \in 1..Len(posted) |-> Payload(sub, id, k)]

\* Sequence d is the beginning of sequence p.
IsPrefix(d, p) == Len(d) <= Len(p) /\ d = SubSeq(p, 1, Len(d))

FetchThrows == lastFetch' # lastFetch /\ lastFetch'.res = ThrowsOnInput

\* C36: a fetch() call that throws because its input is of an unsupported type
\* leaves the controller as it was: no id is consumed and no entry is added to
\* #pendingFetches, so that no later stop() or close() waits for it.
C36_ThrowLeavesNothing ==
  [][FetchThrows => (fetchId' = fetchId /\ pendingFetches' = pendingFetches)]_vars

\* finalize() of the RequestEvent of request id has posted the respond or
\* respondError message of the exchange.
Answered(id) == bodyPump["RequestEvent.finalize"][id] \in {"loop", "done", "nobody"}

\* C37: the promise respondWith() returned to the fetchHandler settles once
\* the response has been sent: a handler that awaits it goes on and returns,
\* and the exchange is answered.
C37_RespondWithSettles ==
  \A id \in Ids : (handlerPc[id] = "awaitRespond") ~>
                    (handlerPc[id] = "returned" /\ Answered(id))

\* C38: every body message of subType request the controller handles finds
\* the RequestEvent of its id still in #pendingRequests and with a body
\* controller, whether or not the handler has read evt.request and whether or
\* not finalize() is over.
C38_RequestBodyDelivered ==
  [][HostHandlesBody("request") =>
       /\ Head(toHost).id \in pendingRequests
       /\ Head(toHost).id \in eventBody
       /\ hostAssert' = hostAssert
       /\ hostMissed' = hostMissed]_vars

\* C39: once the fetchHandler has returned, whether it called respondWith()
\* or not and whether it read evt.request or not, the fetch message it was
\* given is answered with a respond or respondError message.
C39_HandlerReturnAnswers ==
  \A id \in Ids : (handlerPc[id] \in {"returned", "assert"}) ~> Answered(id)

\* C40: a respond message for an id that is not pending leaves the tables of
\* the controller as they were, and the stream controller registered for a
\* response body of that id that is still streaming stays the one in
\* #bodyControllers.
C40_StrayRespondChangesNothing ==
  [][(HostHandles("respond") /\ Head(toHost).id \notin pendingFetches) =>
       /\ UNCHANGED <<pendingFetches, outcome, settleOrder, bodyControllers, bodyStreams,
                      callerStream>>
       /\ \A id \in bodyControllers' : bodyStreams'[id] = callerStream'[id]]_vars

\* The fetch() calls serve(conn) made that have not settled.
InFlight(c) == {id \in connFetch[c] : outcome[id] = NoOutcome}

\* Both loops of listen() are over: accept() has returned, and so has serve()
\* of every connection accepted.
LoopsOver == acceptPc = "done" /\ \A c \in Conns : connPc[c] \in {"none", "done"}

\* C35: after listen(), every connection has at most one worker.fetch()
\* exchange in flight, and once the state of the controller is no longer
\* running, after stop() or close(), the accept loop and the serve loop of
\* every connection terminate.
C35_LoopsTerminate ==
  /\ [](\A c \in Conns : Cardinality(InFlight(c)) <= 1)
  /\ (acceptPc # "idle" /\ state \in {"stopped", "closed"}) ~> LoopsOver

====
